---------------------------- MODULE Spec2Model ----------------------------
(***************************************************************************)
(* A model of the counterfeit detector of brand-discovery-agent:           *)
(*   - the string similarity of src/counterfeit_detector.py,               *)
(*   - the brand resolution (_get_brand_context) against the brand graph   *)
(*     that build_brand_graph.upsert_brand_info writes,                    *)
(*   - the risk scoring (_calculate_counterfeit_confidence,                *)
(*     _get_risk_level) and the per-listing assembly                       *)
(*     (analyze_catalog_item).                                             *)
(*                                                                         *)
(* Numbers.  Python floats are modelled as exact rationals [n, d] in       *)
(* lowest terms.  Every comparison the code makes against a literal        *)
(* (0.7, 0.5, 0.8, 0) is made here on the exact value; for the similarity  *)
(* 1.0 - d/m the float and the exact comparison with 0.7 agree for every   *)
(* m <= 64 (in particular 1.0 - 3/10 is the float 0.7, so it is not > 0.7).*)
(*                                                                         *)
(* Text.  A Python str is a sequence of one-character strings; a dict is a *)
(* function whose DOMAIN is the set of keys present.                       *)
(***************************************************************************)
EXTENDS Integers, Sequences, FiniteSets, TLC

VARIABLES
    str1, str2, simResult,          \* _calculate_similarity: arguments, result
    simPc,
    store,                          \* the brand graph (Neo4j)
    upserts,                        \* upsert_brand_info calls made so far
    brandName,                      \* argument of the last _get_brand_context
    context,                        \* its return value (NONE: no call yet)
    brandConfidence, indicators,    \* _calculate_counterfeit_confidence: arguments
    confidence,                     \* its result
    riskLevel,                      \* _get_risk_level of that result
    scorePc,
    item,                           \* analyze_catalog_item: the listing
    brandCandidates,                \* brand_candidates
    enriched,                       \* enriched_candidates
    verdict,                        \* the dict returned (NONE: not yet)
    analysisPc,
    entry,                          \* the entry point of the detector package
    listings,                       \* the caller's listing dicts (mutable)
    batchSize, maxWorkers,          \* BatchProcessor(batch_size, max_workers)
    chunkStart,                     \* i of process_large_dataset's loop
    brandGroups,                    \* brand_groups of the current chunk
    brandData,                      \* brand_data of the current chunk
    futures,                        \* the futures of the current chunk
    batchResults,                   \* results of process_batch
    results,                        \* results of the entry point
    graphCalls,                     \* the graph client's calls, in order
    variationCache,                 \* BrandGraphClient.variation_cache
    pauses,                         \* the time.sleep(1) calls made so far
    batchError,                     \* the exception that left the entry point
    batchPc,
    catalogItems,                   \* analyze_catalog_items: the argument
    itemResults,                    \* its results list
    printed,                        \* the error lines printed, in order
    itemsPc,
    crewInputs,                     \* BrandGraphCrew.inputs
    crewOutput,                     \* the output handed to update_graph
    discovered,                     \* discovered_brands, as the loop visits it
    agentReplies,                   \* the agents' replies, one pair per brand
    upsertCalls,                    \* the calls of upsert_brand_info, in order
    crewPc,
    fuzzyMatches,                   \* _query_fuzzy_brand: its return value
    fuzzyPc,
    texts,                          \* _batch_brand_detection: the listings
    textBatches,                    \* text_batches zipped with batch_indices
    requests,                       \* the extract_brands calls made, in order
    brandResults,                   \* its brand_results
    detectPc

simVars == <<str1, str2, simResult, simPc>>
graphVars == <<store, upserts, brandName, context>>
scoreVars == <<brandConfidence, indicators, confidence, riskLevel, scorePc>>

analysisVars == <<item, brandCandidates, enriched, verdict, analysisPc>>

batchVars == <<entry, listings, batchSize, maxWorkers, chunkStart, brandGroups,
               brandData, futures, batchResults, results, graphCalls,
               variationCache, pauses, batchError, batchPc>>

itemsVars == <<catalogItems, itemResults, printed, itemsPc>>

crewVars == <<crewInputs, crewOutput, discovered, agentReplies, upsertCalls,
              crewPc>>

fuzzyVars == <<fuzzyMatches, fuzzyPc>>

detectVars == <<texts, textBatches, requests, brandResults, detectPc>>

pipelineVars == <<batchVars, itemsVars, crewVars, fuzzyVars, detectVars>>

vars == <<str1, str2, simResult, simPc, store, upserts, brandName, context,
          brandConfidence, indicators, confidence, riskLevel, scorePc,
          item, brandCandidates, enriched, verdict, analysisPc,
          entry, listings, batchSize, maxWorkers, chunkStart, brandGroups,
          brandData, futures, batchResults, results, graphCalls,
          variationCache, pauses, batchError, batchPc,
          catalogItems, itemResults, printed, itemsPc,
          crewInputs, crewOutput, discovered, agentReplies, upsertCalls,
          crewPc, fuzzyMatches, fuzzyPc,
          texts, textBatches, requests, brandResults, detectPc>>

-----------------------------------------------------------------------------
(* Rationals *)

RECURSIVE GCD(_, _)
GCD(a, b) == IF b = 0 THEN a ELSE GCD(b, a % b)

Rat(n, d) == LET g == GCD(n, d) IN [n |-> n \div g, d |-> d \div g]

RZero == Rat(0, 1)
ROne == Rat(1, 1)
RHalf == Rat(1, 2)

RAdd(a, b) == Rat(a.n * b.d + b.n * a.d, a.d * b.d)
RMul(a, b) == Rat(a.n * b.n, a.d * b.d)
RDiv(a, b) == Rat(a.n * b.d, a.d * b.n)
RLt(a, b) == a.n * b.d < b.n * a.d
RLeq(a, b) == a.n * b.d <= b.n * a.d
RGt(a, b) == RLt(b, a)
RGeq(a, b) == RLeq(b, a)
RMin(a, b) == IF RLeq(a, b) THEN a ELSE b

-----------------------------------------------------------------------------
(* Text *)

UpperLetters == <<"A","B","C","D","E","F","G","H","I","J","K","L","M",
                  "N","O","P","Q","R","S","T","U","V","W","X","Y","Z">>
LowerLetters == <<"a","b","c","d","e","f","g","h","i","j","k","l","m",
                  "n","o","p","q","r","s","t","u","v","w","x","y","z">>

NONE == [is_none |-> TRUE]          \* Python None
NULL == "<null>"                    \* a Cypher null inside a returned map

\* str.lower(), one character
LowerChar(c) ==
    IF \E i \in DOMAIN UpperLetters : UpperLetters[i] = c
    THEN LowerLetters[CHOOSE i \in DOMAIN UpperLetters : UpperLetters[i] = c]
    ELSE c

\* str.lower()
Lower(s) == [i \in DOMAIN s |-> LowerChar(s[i])]

-----------------------------------------------------------------------------
(* _calculate_similarity: the Levenshtein matrix, filled row by row.  A row *)
(* is the sequence matrix[i][0..len(str2)], column j at index j + 1.        *)

Min3(a, b, c) == IF a <= b THEN (IF a <= c THEN a ELSE c)
                 ELSE (IF b <= c THEN b ELSE c)

Max2(a, b) == IF a >= b THEN a ELSE b

\* matrix[0][j] = j
FirstRow(s2) == [k \in 1..(Len(s2) + 1) |-> k - 1]

\* a faulty variant: a match costs one, like a substitution
RECURSIVE FillRowNoMatch(_, _, _, _, _)
FillRowNoMatch(prev, cur, i, s1, s2) ==
    IF Len(cur) = Len(s2) + 1 THEN cur
    ELSE LET j == Len(cur)
             cell == Min3(prev[j + 1] + 1, cur[j] + 1, prev[j] + 1)
         IN FillRowNoMatch(prev, Append(cur, cell), i, s1, s2)

\* the inner loop over j for one i; cur starts as <<i>> (matrix[i][0] = i)
RECURSIVE FillRow(_, _, _, _, _)
FillRow(prev, cur, i, s1, s2) ==
    IF Len(cur) = Len(s2) + 1 THEN cur
    ELSE LET j == Len(cur)
             cell == IF s1[i] = s2[j]
                     THEN prev[j]
                     ELSE Min3(prev[j + 1] + 1,   \* deletion
                               cur[j] + 1,        \* insertion
                               prev[j] + 1)       \* substitution
         IN FillRow(prev, Append(cur, cell), i, s1, s2)

\* the outer loop over i; returns the last row, matrix[len(str1)]
RECURSIVE FillMatrix(_, _, _, _)
FillMatrix(prev, i, s1, s2) ==
    IF i > Len(s1) THEN prev
    ELSE FillMatrix(FillRow(prev, <<i>>, i, s1, s2), i + 1, s1, s2)

\* actual_distance = matrix[len(str1)][len(str2)]
ActualDistance(s1, s2) == FillMatrix(FirstRow(s2), 1, s1, s2)[Len(s2) + 1]

CalculateSimilarity(s1, s2) ==
    IF Len(s1) = 0 THEN RZero
    ELSE IF Len(s2) = 0 THEN RZero
    ELSE LET max_distance == Max2(Len(s1), Len(s2))
         IN Rat(max_distance - ActualDistance(s1, s2), max_distance)

-----------------------------------------------------------------------------
(* Risk scoring.  An indicator is the dict the inference service returned: *)
(* its keys indicator_type and confidence may be absent (dict.get with a   *)
(* default); its description is never read by the scoring.                 *)

\* a faulty variant: every indicator type weighs the same
WeightsEqual ==
    [name_variation |-> Rat(1, 1),
     attribute_mismatch |-> Rat(1, 1),
     description_red_flag |-> Rat(1, 1),
     price_indicator |-> Rat(1, 1),
     known_pattern |-> Rat(1, 1)]

\* the weights table of _calculate_counterfeit_confidence
Weights ==
    [name_variation |-> Rat(1, 1),
     attribute_mismatch |-> Rat(4, 5),
     description_red_flag |-> Rat(3, 5),
     price_indicator |-> Rat(7, 10),
     known_pattern |-> Rat(1, 1)]

\* dict.get(key, default)
Get(dict, key, default) == IF key \in DOMAIN dict THEN dict[key] ELSE default

\* a faulty variant: the divisor accumulates the confidences, not the weights
RECURSIVE SumIndicatorsByConfidence(_, _, _)
SumIndicatorsByConfidence(inds, weighted_score, total_weight) ==
    IF inds = <<>>
    THEN [weighted_score |-> weighted_score, total_weight |-> total_weight]
    ELSE LET indicator_type == Get(Head(inds), "indicator_type", "other")
             conf == Get(Head(inds), "confidence", RHalf)
             weight == Get(Weights, indicator_type, RHalf)
         IN SumIndicatorsByConfidence(Tail(inds),
                                      RAdd(weighted_score, RMul(conf, weight)),
                                      RAdd(total_weight, conf))

\* for indicator in indicators: weighted_score += ...; total_weight += ...
RECURSIVE SumIndicators(_, _, _)
SumIndicators(inds, weighted_score, total_weight) ==
    IF inds = <<>>
    THEN [weighted_score |-> weighted_score, total_weight |-> total_weight]
    ELSE LET indicator_type == Get(Head(inds), "indicator_type", "other")
             conf == Get(Head(inds), "confidence", RHalf)
             weight == Get(Weights, indicator_type, RHalf)
         IN SumIndicators(Tail(inds),
                          RAdd(weighted_score, RMul(conf, weight)),
                          RAdd(total_weight, weight))

\* indicator_score = weighted_score / total_weight if total_weight > 0 else 0
IndicatorScore(inds) ==
    LET sums == SumIndicators(inds, RZero, RZero)
    IN IF RGt(sums.total_weight, RZero)
       THEN RDiv(sums.weighted_score, sums.total_weight)
       ELSE RZero

\* a faulty variant: the brand confidence gates the score, no floor of 0.5
FinalConfidenceGated(brand_confidence, indicator_score) ==
    RMin(ROne, RMul(indicator_score, brand_confidence))

\* min(1.0, indicator_score * (0.5 + 0.5 * brand_confidence))
FinalConfidence(brand_confidence, indicator_score) ==
    RMin(ROne, RMul(indicator_score,
                    RAdd(RHalf, RMul(RHalf, brand_confidence))))

\* a faulty variant: without indicators the score is the floor share of the
\* brand confidence
CalculateConfidenceNoIndicatorsFloor(brand_confidence, inds) ==
    IF inds = <<>> THEN RMul(RHalf, brand_confidence)
    ELSE FinalConfidence(brand_confidence, IndicatorScore(inds))

\* _calculate_counterfeit_confidence
CalculateCounterfeitConfidence(brand_confidence, inds) ==
    IF inds = <<>> THEN RZero
    ELSE FinalConfidence(brand_confidence, IndicatorScore(inds))

\* a faulty variant: the boundaries belong to the lower tier
GetRiskLevelExclusive(score) ==
    IF RGt(score, Rat(4, 5)) THEN "HIGH"
    ELSE IF RGt(score, Rat(1, 2)) THEN "MEDIUM"
    ELSE IF RGt(score, RZero) THEN "LOW"
    ELSE "NONE"

\* _get_risk_level
GetRiskLevel(score) ==
    IF RGeq(score, Rat(4, 5)) THEN "HIGH"
    ELSE IF RGeq(score, Rat(1, 2)) THEN "MEDIUM"
    ELSE IF RGt(score, RZero) THEN "LOW"
    ELSE "NONE"

ScoreIdle ==
    /\ brandConfidence = RZero
    /\ indicators = <<>>
    /\ confidence = RZero
    /\ riskLevel = "NONE"
    /\ scorePc = "idle"

-----------------------------------------------------------------------------
(* The final analysis of analyze_catalog_item.                             *)

NoBrand == <<NULL>>                 \* highest_risk_brand = None

\* max([...], default=0): the first largest element
RECURSIVE MaxConfidence(_, _)
MaxConfidence(cs, best) ==
    IF cs = <<>> THEN best
    ELSE MaxConfidence(Tail(cs),
                       IF RGt(Head(cs).counterfeit_confidence, best)
                       THEN Head(cs).counterfeit_confidence ELSE best)

CounterfeitScore(cs) ==
    IF cs = <<>> THEN RZero
    ELSE MaxConfidence(Tail(cs), Head(cs).counterfeit_confidence)

\* a faulty variant: the last candidate with that confidence
RECURSIVE LastRiskBrand(_, _)
LastRiskBrand(cs, counterfeit_score) ==
    IF cs = <<>> THEN NoBrand
    ELSE IF cs[Len(cs)].counterfeit_confidence = counterfeit_score
    THEN cs[Len(cs)].brand_name
    ELSE LastRiskBrand(SubSeq(cs, 1, Len(cs) - 1), counterfeit_score)

\* next((c["brand_name"] for c in ... if ... == counterfeit_score), None)
RECURSIVE HighestRiskBrand(_, _)
HighestRiskBrand(cs, counterfeit_score) ==
    IF cs = <<>> THEN NoBrand
    ELSE IF Head(cs).counterfeit_confidence = counterfeit_score
    THEN Head(cs).brand_name
    ELSE HighestRiskBrand(Tail(cs), counterfeit_score)

\* a faulty variant: only a score above 0.9 is flagged
IsLikelyCounterfeitAboveNine(counterfeit_score) ==
    RGt(counterfeit_score, Rat(9, 10))

\* "is_likely_counterfeit": counterfeit_score > 0.7
IsLikelyCounterfeit(counterfeit_score) == RGt(counterfeit_score, Rat(7, 10))

\* "Step 3: Generate final analysis"; analysis_timestamp, the wall clock, is
\* left out
FinalAnalysis(it, cs) ==
    LET counterfeit_score == CounterfeitScore(cs)
    IN [item |-> it,
        brand_candidates |-> cs,
        counterfeit_score |-> counterfeit_score,
        highest_risk_brand |-> HighestRiskBrand(cs, counterfeit_score),
        is_likely_counterfeit |-> IsLikelyCounterfeit(counterfeit_score),
        risk_level |-> GetRiskLevel(counterfeit_score)]

AnalysisIdle ==
    /\ item = <<>>
    /\ brandCandidates = <<>>
    /\ enriched = <<>>
    /\ verdict = NONE
    /\ analysisPc = "idle"

BatchIdle ==
    /\ entry = "idle"
    /\ listings = <<>>
    /\ batchSize = 1
    /\ maxWorkers = 1
    /\ chunkStart = 0
    /\ brandGroups = <<>>
    /\ brandData = <<>>
    /\ futures = <<>>
    /\ batchResults = <<>>
    /\ results = <<>>
    /\ graphCalls = <<>>
    /\ variationCache = <<>>
    /\ pauses = 0
    /\ batchError = NONE
    /\ batchPc = "idle"

ItemsIdle ==
    /\ catalogItems = <<>>
    /\ itemResults = <<>>
    /\ printed = <<>>
    /\ itemsPc = "idle"

CrewIdle ==
    /\ crewInputs = <<>>
    /\ crewOutput = <<>>
    /\ discovered = <<>>
    /\ agentReplies = <<>>
    /\ upsertCalls = <<>>
    /\ crewPc = "idle"

FuzzyIdle == fuzzyMatches = <<>> /\ fuzzyPc = "idle"

DetectIdle ==
    /\ texts = <<>>
    /\ textBatches = <<>>
    /\ requests = <<>>
    /\ brandResults = <<>>
    /\ detectPc = "idle"

PipelineIdle == BatchIdle /\ ItemsIdle /\ CrewIdle /\ FuzzyIdle /\ DetectIdle

-----------------------------------------------------------------------------
(* The brand graph.  Nodes are identified by their name (every node is     *)
(* MERGEd on its name); each relationship type is the sequence of its      *)
(* edges in creation order, which is also the order in which the model's   *)
(* store returns rows.                                                     *)

EmptyStore ==
    [brands |-> <<>>,               \* (:Brand), creation order
     belongsTo |-> <<>>,            \* (b)-[:BELONGS_TO]->(:Category)
     isType |-> <<>>,               \* (b)-[:IS_TYPE]->(:ProductType)
     hasAttribute |-> <<>>,         \* (b)-[:HAS_ATTRIBUTE]->(:Attribute)
     hasValue |-> <<>>,             \* (a)-[:HAS_VALUE]->(:Value)
     hasVariation |-> <<>>]         \* (b)-[:HAS_VARIATION]->(:Variation)

InSeq(seq, x) == \E i \in DOMAIN seq : seq[i] = x

\* MERGE: create the node or edge unless it is there
Merge(seq, x) == IF InSeq(seq, x) THEN seq ELSE Append(seq, x)

\* for value in values: MERGE the attribute, the value and both edges
RECURSIVE UpsertValues(_, _, _, _)
UpsertValues(g, brand, attr_name, values) ==
    IF values = <<>> THEN g
    ELSE UpsertValues(
            [g EXCEPT !.hasAttribute = Merge(@, <<brand, attr_name>>),
                      !.hasValue = Merge(@, <<attr_name, Head(values)>>)],
            brand, attr_name, Tail(values))

\* for attr_name, values in attributes.items()
RECURSIVE UpsertAttributes(_, _, _)
UpsertAttributes(g, brand, items) ==
    IF items = <<>> THEN g
    ELSE UpsertAttributes(
            UpsertValues(g, brand, Head(items).name, Head(items).values),
            brand, Tail(items))

\* for variation in variations
RECURSIVE UpsertVariations(_, _, _)
UpsertVariations(g, brand, variations) ==
    IF variations = <<>> THEN g
    ELSE UpsertVariations(
            [g EXCEPT !.hasVariation = Merge(@, <<brand, Head(variations)>>)],
            brand, Tail(variations))

\* build_brand_graph.upsert_brand_info; attributes is the dict as the
\* sequence of its items
UpsertBrandInfo(g, brand, category, product_type, attributes, variations) ==
    LET g1 == [g EXCEPT !.brands = Merge(@, brand)]
        g2 == [g1 EXCEPT !.belongsTo = Merge(@, <<brand, category>>)]
        g3 == [g2 EXCEPT !.isType = Merge(@, <<brand, product_type>>)]
        g4 == UpsertAttributes(g3, brand, attributes)
    IN UpsertVariations(g4, brand, variations)

\* collect(distinct {name: a.name, value: v.name}) for brand b.  The two
\* OPTIONAL MATCHes leave a and v null for a brand without attributes, and
\* the map {name: null, value: null} is itself not null: it is collected.
AttrValues(g, b) ==
    LET OfBrand(e) == e[1] = b
        attrs == SelectSeq(g.hasAttribute, OfBrand)
        RECURSIVE Rows(_)
        Rows(as) ==
            IF as = <<>> THEN <<>>
            ELSE LET a == Head(as)[2]
                     OfAttr(e) == e[1] = a
                     vs == SelectSeq(g.hasValue, OfAttr)
                 IN [k \in DOMAIN vs |-> [name |-> a, value |-> vs[k][2]]]
                    \o Rows(Tail(as))
        rows == Rows(attrs)
    IN IF rows = <<>> THEN <<[name |-> NULL, value |-> NULL]>> ELSE rows

\* collect(distinct var.name) for brand b (collect skips nulls)
VariationNames(g, b) ==
    LET OfBrand(e) == e[1] = b
        es == SelectSeq(g.hasVariation, OfBrand)
    IN [k \in DOMAIN es |-> es[k][2]]

\* "Convert attribute values to dictionary"
RECURSIVE AttributesDict(_, _)
AttributesDict(attr_values, attributes) ==
    IF attr_values = <<>> THEN attributes
    ELSE LET name == Head(attr_values).name
             value == Head(attr_values).value
             a1 == IF name \notin DOMAIN attributes
                   THEN attributes @@ (name :> <<>>)
                   ELSE attributes
         IN AttributesDict(Tail(attr_values),
                           [a1 EXCEPT ![name] = Append(@, value)])

\* _query_exact_brand
QueryExactBrand(g, brand_name) ==
    IF ~InSeq(g.brands, brand_name) THEN NONE
    ELSE [brand |-> brand_name,
          exists_in_graph |-> TRUE,
          attributes |-> AttributesDict(AttrValues(g, brand_name), <<>>),
          legitimate_variations |-> <<>>,
          counterfeit_variations |-> VariationNames(g, brand_name)]

\* the literal 0.7 of _query_fuzzy_brand
SimilarityThreshold == Rat(7, 10)

\* a faulty variant: the threshold itself passes
PassesThresholdInclusive(similarity) == RGeq(similarity, SimilarityThreshold)

\* if similarity > 0.7
PassesThreshold(similarity) == RGt(similarity, SimilarityThreshold)

\* for brand in brands: ... matches.append((brand, similarity))
RECURSIVE FuzzyMatches(_, _)
FuzzyMatches(brands, brand_name) ==
    IF brands = <<>> THEN <<>>
    ELSE LET brand == Head(brands)
             similarity == CalculateSimilarity(Lower(brand_name), Lower(brand))
             rest == FuzzyMatches(Tail(brands), brand_name)
         IN IF PassesThreshold(similarity)
            THEN <<[brand |-> brand, score |-> similarity]>> \o rest
            ELSE rest

\* a faulty variant: the sort without reverse=True, lowest score first
RECURSIVE InsertByScoreAscending(_, _)
InsertByScoreAscending(sorted, m) ==
    IF sorted = <<>> THEN <<m>>
    ELSE IF RLt(m.score, Head(sorted).score) THEN <<m>> \o sorted
    ELSE <<Head(sorted)>> \o InsertByScoreAscending(Tail(sorted), m)

\* a faulty variant: a sort that is not stable, a match goes in front of
\* the earlier matches of its score
RECURSIVE InsertByScoreUnstable(_, _)
InsertByScoreUnstable(sorted, m) ==
    IF sorted = <<>> THEN <<m>>
    ELSE IF RLeq(Head(sorted).score, m.score) THEN <<m>> \o sorted
    ELSE <<Head(sorted)>> \o InsertByScoreUnstable(Tail(sorted), m)

\* list.sort(key=score, reverse=True): stable, equal scores keep their order
RECURSIVE InsertByScore(_, _)
InsertByScore(sorted, m) ==
    IF sorted = <<>> THEN <<m>>
    ELSE IF RLt(Head(sorted).score, m.score) THEN <<m>> \o sorted
    ELSE <<Head(sorted)>> \o InsertByScore(Tail(sorted), m)

RECURSIVE SortByScore(_, _)
SortByScore(matches, sorted) ==
    IF matches = <<>> THEN sorted
    ELSE SortByScore(Tail(matches), InsertByScore(sorted, Head(matches)))

\* the "Top 3 matches" of matches[:3]
TopMatches == 3

\* a faulty variant: the score is not attached to the context
RECURSIVE FuzzyContextsUnscored(_, _)
FuzzyContextsUnscored(g, matches) ==
    IF matches = <<>> THEN <<>>
    ELSE LET ctx == QueryExactBrand(g, Head(matches).brand)
             rest == FuzzyContextsUnscored(g, Tail(matches))
         IN IF ctx # NONE THEN <<ctx>> \o rest ELSE rest

\* for brand, score in matches[:3]: context["similarity_score"] = score
RECURSIVE FuzzyContexts(_, _)
FuzzyContexts(g, matches) ==
    IF matches = <<>> THEN <<>>
    ELSE LET ctx == QueryExactBrand(g, Head(matches).brand)
             rest == FuzzyContexts(g, Tail(matches))
         IN IF ctx # NONE
            THEN <<ctx @@ [similarity_score |-> Head(matches).score]>> \o rest
            ELSE rest

\* _query_fuzzy_brand
QueryFuzzyBrand(g, brand_name) ==
    LET matches == SortByScore(FuzzyMatches(g.brands, brand_name), <<>>)
        top == SubSeq(matches, 1, IF Len(matches) < TopMatches
                                  THEN Len(matches) ELSE TopMatches)
    IN FuzzyContexts(g, top)

\* _query_brand_variations: one record per brand with an edge to the variation
QueryBrandVariations(g, potential_variation) ==
    LET ToVariation(e) == e[2] = potential_variation
        es == SelectSeq(g.hasVariation, ToVariation)
    IN [k \in DOMAIN es |->
           [original_brand |-> es[k][1],
            attributes |-> AttributesDict(AttrValues(g, es[k][1]), <<>>)]]

\* a faulty variant: the brand's whole variation list instead of [brand_name]
VariationContextAllVariations(g, brand_name, variation_matches) ==
    [brand |-> variation_matches[1].original_brand,
     is_variation |-> TRUE,
     variation_type |-> "counterfeit",
     attributes |-> variation_matches[1].attributes,
     legitimate_variations |-> <<>>,
     counterfeit_variations |->
         VariationNames(g, variation_matches[1].original_brand)]

\* the variant branch of _get_brand_context
VariationContext(g, brand_name, variation_matches) ==
    [brand |-> variation_matches[1].original_brand,
     is_variation |-> TRUE,
     variation_type |-> "counterfeit",
     attributes |-> variation_matches[1].attributes,
     legitimate_variations |-> <<>>,
     counterfeit_variations |-> <<brand_name>>]

\* a faulty variant: the fuzzy match is tried before the exact match
GetBrandContextFuzzyFirst(g, brand_name) ==
    LET exact_match == QueryExactBrand(g, brand_name)
        fuzzy_matches == QueryFuzzyBrand(g, brand_name)
    IN IF fuzzy_matches # <<>> THEN fuzzy_matches[1]
       ELSE IF exact_match # NONE THEN exact_match
       ELSE [brand |-> brand_name,
             exists_in_graph |-> FALSE,
             attributes |-> <<>>,
             legitimate_variations |-> <<>>,
             counterfeit_variations |-> <<>>]

\* _get_brand_context
GetBrandContext(g, brand_name) ==
    LET exact_match == QueryExactBrand(g, brand_name)
        fuzzy_matches == QueryFuzzyBrand(g, brand_name)
        variation_matches == QueryBrandVariations(g, brand_name)
    IN IF exact_match # NONE THEN exact_match
       ELSE IF fuzzy_matches # <<>> THEN fuzzy_matches[1]
       ELSE IF variation_matches # <<>>
       THEN VariationContext(g, brand_name, variation_matches)
       ELSE [brand |-> brand_name,
             exists_in_graph |-> FALSE,
             attributes |-> <<>>,
             legitimate_variations |-> <<>>,
             counterfeit_variations |-> <<>>]

GraphIdle ==
    /\ store = EmptyStore
    /\ upserts = 0
    /\ brandName = <<>>
    /\ context = NONE

-----------------------------------------------------------------------------
(* Brand resolution against a graph that upsert_brand_info fills.          *)

MaxUpserts == 2

Nike == <<"N","i","k","e">>
NikeLower == <<"n","i","k","e">>
Nikon == <<"N","i","k","o","n">>
Balenciaga == <<"B","a","l","e","n","c","i","a","g","a">>
Niko == <<"N","i","k","o">>
Nikey == <<"N","i","k","e","y">>
Nkie == <<"N","k","i","e">>
Valensiago == <<"V","a","l","e","n","s","i","a","g","o">>
Puma == <<"P","u","m","a">>

\* the brands the graph builder is run for
BrandInputs == {Nike, NikeLower, Nikon, Balenciaga}

\* the attribute dicts and variation lists the builder's extraction returns
AttributeInputs ==
    {<<>>, <<[name |-> "material", values |-> <<"leather", "mesh">>]>>}
VariationInputs == {<<>>, <<Nikey, Nkie>>, <<Valensiago, NikeLower>>}

\* the candidate names the detector is asked to resolve
CandidateNames ==
    {Nike, NikeLower, Nikon, Balenciaga, Niko, Nikey, Nkie, Valensiago,
     Puma, <<>>}

SimIdle == str1 = <<>> /\ str2 = <<>> /\ simResult = RZero /\ simPc = "idle"

ResolveInit ==
    /\ GraphIdle
    /\ SimIdle
    /\ ScoreIdle
    /\ AnalysisIdle
    /\ PipelineIdle

\* one run of the graph builder for one brand (never while the detector is
\* inside a resolution: the builder is a script of its own)
Upsert ==
    /\ upserts < MaxUpserts
    /\ context = NONE
    /\ \E brand \in BrandInputs, attributes \in AttributeInputs,
          variations \in VariationInputs :
          store' = UpsertBrandInfo(store, brand, "Fashion", "Apparel",
                                   attributes, variations)
    /\ upserts' = upserts + 1
    /\ UNCHANGED <<brandName, context>>
    /\ UNCHANGED <<pipelineVars, simVars, scoreVars, analysisVars>>

\* one call of _get_brand_context, up to its return
Resolve ==
    /\ context = NONE
    /\ \E name \in CandidateNames :
          /\ brandName' = name
          /\ context' = GetBrandContext(store, name)
    /\ UNCHANGED <<store, upserts>>
    /\ UNCHANGED <<pipelineVars, simVars, scoreVars, analysisVars>>

\* the caller takes the returned context; the detector is free again
Release ==
    /\ context # NONE
    /\ brandName' = <<>>
    /\ context' = NONE
    /\ UNCHANGED <<store, upserts>>
    /\ UNCHANGED <<pipelineVars, simVars, scoreVars, analysisVars>>

ResolveNext == Upsert \/ Resolve \/ Release

SpecResolve == ResolveInit /\ [][ResolveNext]_vars

\* what the graph holds, stated on the graph itself
Range(seq) == {seq[i] : i \in DOMAIN seq}
IsBrand(g, name) == name \in Range(g.brands)
BrandsWithVariation(g, name) == {e[1] : e \in {x \in Range(g.hasVariation) : x[2] = name}}
ScoreAgainst(name, brand) == CalculateSimilarity(Lower(name), Lower(brand))
BrandsAbove(g, name) ==
    {b \in Range(g.brands) : RGt(ScoreAgainst(name, b), Rat(7, 10))}
BrandsAtOrAbove(g, name) ==
    {b \in Range(g.brands) : RGeq(ScoreAgainst(name, b), Rat(7, 10))}

Returned == context # NONE
Has(key) == key \in DOMAIN context

\* the markers of the four resolution kinds on a returned context
MarkedExact ==
    /\ Has("exists_in_graph") /\ context.exists_in_graph = TRUE
    /\ ~Has("similarity_score") /\ ~Has("is_variation")
MarkedFuzzy == Has("similarity_score")
MarkedVariant == Has("is_variation") /\ context.is_variation = TRUE
\* (the variant context has no exists_in_graph key at all; the marker of the
\* unresolved kind is the key being there and False)
MarkedUnresolved == Has("exists_in_graph") /\ context.exists_in_graph = FALSE

\* C1: exact, then fuzzy, then variant, first success wins: a stored
\* canonical name yields its exact context whatever else it matches; a
\* variant result is returned only when neither an exact nor a fuzzy match
\* exists; when all three fail the result is the unresolved context.
C1_ResolutionOrder ==
    Returned =>
        LET exact == IsBrand(store, brandName)
            fuzzy == BrandsAbove(store, brandName)
            variant == BrandsWithVariation(store, brandName)
        IN /\ exact =>
                 /\ MarkedExact
                 /\ context.brand = brandName
           /\ (~exact /\ fuzzy # {}) =>
                 /\ MarkedFuzzy
                 /\ context.brand \in fuzzy
           /\ MarkedVariant => (~exact /\ fuzzy = {} /\ variant # {})
           /\ (~exact /\ fuzzy = {} /\ variant = {}) =>
                 context = [brand |-> brandName,
                            exists_in_graph |-> FALSE,
                            attributes |-> <<>>,
                            legitimate_variations |-> <<>>,
                            counterfeit_variations |-> <<>>]

\* "nike" is a canonical brand, scores 1.0 against the earlier brand "Nike"
\* and is a stored variant of it: the exact context of "nike" is returned
C1_Witness ==
    /\ Returned
    /\ brandName = NikeLower
    /\ store.brands = <<Nike, NikeLower>>
    /\ <<Nike, NikeLower>> \in {store.hasVariation[i] : i \in DOMAIN store.hasVariation}
    /\ MarkedExact
    /\ context.brand = NikeLower

\* C2: a returned context carries the markers of exactly one resolution
\* kind, the kind of the step that produced it, and always has attributes.
C2_OneResolutionKind ==
    Returned =>
        LET exact == IsBrand(store, brandName)
            fuzzy == BrandsAbove(store, brandName)
            variant == BrandsWithVariation(store, brandName)
        IN /\ Has("attributes")
           /\ Cardinality({k \in {"exact", "fuzzy", "variant", "unresolved"} :
                 \/ k = "exact" /\ MarkedExact
                 \/ k = "fuzzy" /\ MarkedFuzzy
                 \/ k = "variant" /\ MarkedVariant
                 \/ k = "unresolved" /\ MarkedUnresolved}) = 1
           /\ MarkedExact <=> exact
           /\ MarkedFuzzy <=> (~exact /\ fuzzy # {})
           /\ MarkedVariant <=> (~exact /\ fuzzy = {} /\ variant # {})
           /\ MarkedUnresolved <=> (~exact /\ fuzzy = {} /\ variant = {})

\* a fuzzy result: the record of an existing brand, told from an exact one
\* by its similarity_score alone
C2_Witness ==
    /\ Returned
    /\ brandName = Nikey
    /\ MarkedFuzzy /\ ~MarkedExact /\ ~MarkedVariant /\ ~MarkedUnresolved
    /\ context.exists_in_graph = TRUE
    /\ context.attributes = ("material" :> <<"leather", "mesh">>)

\* the highest similarity any stored brand reaches against the name
BestScore(g, name) ==
    LET scores == {ScoreAgainst(name, b) : b \in Range(g.brands)}
    IN CHOOSE x \in scores : \A y \in scores : RLeq(y, x)

AttributesOf(g, b) == AttributesDict(AttrValues(g, b), <<>>)

\* C4 as stated: a name that is a stored variant of brand B, with no exact
\* and no fuzzy match, resolves to is_variation = true, brand B, B's
\* attributes and counterfeit_variations = [name], for every such B.
C4_AsStated ==
    Returned =>
        LET exact == IsBrand(store, brandName)
            fuzzy == BrandsAbove(store, brandName)
        IN (~exact /\ fuzzy = {}) =>
              \A B \in BrandsWithVariation(store, brandName) :
                 /\ MarkedVariant
                 /\ context.brand = B
                 /\ context.attributes = AttributesOf(store, B)
                 /\ context.counterfeit_variations = <<brandName>>

\* C4, amended: the brand returned is one of the brands that store the
\* variant, so it is B whenever B alone stores it; the attributes are that
\* brand's.
C4_VariantMatch ==
    Returned =>
        LET exact == IsBrand(store, brandName)
            fuzzy == BrandsAbove(store, brandName)
            owners == BrandsWithVariation(store, brandName)
        IN (~exact /\ fuzzy = {} /\ owners # {}) =>
              /\ MarkedVariant
              /\ context.brand \in owners
              /\ \A B \in owners : owners = {B} => context.brand = B
              /\ context.attributes = AttributesOf(store, context.brand)
              /\ context.counterfeit_variations = <<brandName>>

\* "Nkie" is one of two stored variants of "Nike" and matches no brand
C4_Witness ==
    /\ Returned
    /\ brandName = Nkie
    /\ VariationNames(store, Nike) = <<Nikey, Nkie>>
    /\ context.is_variation = TRUE
    /\ context.brand = Nike
    /\ context.attributes = ("material" :> <<"leather", "mesh">>)
    /\ context.counterfeit_variations = <<Nkie>>

-----------------------------------------------------------------------------
(* The scoring on its own: every indicator list up to a length, over the   *)
(* indicator dicts below, for each brand-detection confidence.             *)

MaxIndicators == 2

BrandConfidences == {Rat(0, 1), Rat(1, 2), Rat(4, 5), Rat(1, 1)}
IndicatorConfidences == {Rat(0, 1), Rat(1, 2), Rat(4, 5), Rat(1, 1)}
\* three types of the weights table and one that is not in it
IndicatorTypes ==
    {"name_variation", "attribute_mismatch", "price_indicator", "seller_history"}

IndicatorDicts ==
    {[indicator_type |-> t, confidence |-> c] :
        t \in IndicatorTypes, c \in IndicatorConfidences}
    \cup {[indicator_type |-> t] : t \in IndicatorTypes}
    \cup {[confidence |-> c] : c \in IndicatorConfidences}

RECURSIVE IndicatorListsUpTo(_)
IndicatorListsUpTo(k) ==
    IF k = 0 THEN {<<>>}
    ELSE LET shorter == IndicatorListsUpTo(k - 1)
         IN shorter \cup {Append(l, d) : l \in shorter, d \in IndicatorDicts}

ScoreInit ==
    /\ brandConfidence \in BrandConfidences
    /\ indicators \in IndicatorListsUpTo(MaxIndicators)
    /\ confidence = RZero
    /\ riskLevel = "NONE"
    /\ scorePc = "call"
    /\ SimIdle
    /\ GraphIdle
    /\ AnalysisIdle
    /\ PipelineIdle

\* one call of _calculate_counterfeit_confidence
ScoreCall ==
    /\ scorePc = "call"
    /\ confidence' = CalculateCounterfeitConfidence(brandConfidence, indicators)
    /\ scorePc' = "scored"
    /\ UNCHANGED <<brandConfidence, indicators, riskLevel>>
    /\ UNCHANGED <<pipelineVars, simVars, graphVars, analysisVars>>

\* one call of _get_risk_level, on the score just computed
RiskCall ==
    /\ scorePc = "scored"
    /\ riskLevel' = GetRiskLevel(confidence)
    /\ scorePc' = "levelled"
    /\ UNCHANGED <<brandConfidence, indicators, confidence>>
    /\ UNCHANGED <<pipelineVars, simVars, graphVars, analysisVars>>

ScoreNext == ScoreCall \/ RiskCall

SpecScore == ScoreInit /\ [][ScoreNext]_vars

\* C6: every score in [0, 1] gets exactly one tier: HIGH iff >= 0.8, MEDIUM
\* iff in [0.5, 0.8), LOW iff in (0, 0.5), NONE iff 0.
C6_RiskLevel ==
    scorePc = "levelled" =>
        /\ RLeq(RZero, confidence) /\ RLeq(confidence, ROne)
        /\ riskLevel \in {"HIGH", "MEDIUM", "LOW", "NONE"}
        /\ riskLevel = "HIGH" <=> RGeq(confidence, Rat(4, 5))
        /\ riskLevel = "MEDIUM" <=>
              (RGeq(confidence, Rat(1, 2)) /\ RLt(confidence, Rat(4, 5)))
        /\ riskLevel = "LOW" <=>
              (RGt(confidence, RZero) /\ RLt(confidence, Rat(1, 2)))
        /\ riskLevel = "NONE" <=> confidence = RZero

\* a score of exactly 0.8 is HIGH
C6_Witness ==
    /\ scorePc = "levelled"
    /\ confidence = Rat(4, 5)
    /\ riskLevel = "HIGH"

\* C7: for an indicator score X and a brand confidence b, both in [0, 1],
\* the final confidence lies between X/2 and X, is X/2 at b = 0 and X at
\* b = 1, and is not 0 unless X is.
C7_FinalConfidence ==
    (scorePc # "call" /\ indicators # <<>>) =>
        LET X == IndicatorScore(indicators)
        IN /\ RLeq(RZero, X) /\ RLeq(X, ROne)
           /\ confidence = RMin(ROne, RMul(X, Rat(brandConfidence.d + brandConfidence.n,
                                                  2 * brandConfidence.d)))
           /\ RLeq(RMul(RHalf, X), confidence)
           /\ RLeq(confidence, X)
           /\ brandConfidence = RZero => confidence = RMul(RHalf, X)
           /\ brandConfidence = ROne => confidence = X
           /\ RGt(X, RZero) => RGt(confidence, RZero)

\* brand confidence 0, indicator score 0.8: the final confidence is 0.4
C7_Witness ==
    /\ scorePc = "scored"
    /\ brandConfidence = RZero
    /\ IndicatorScore(indicators) = Rat(4, 5)
    /\ confidence = Rat(2, 5)

\* the confidence an indicator counts with
ConfidenceOf(ind) == Get(ind, "confidence", RHalf)

\* the indicator list with the confidence of indicator i set to c
WithConfidence(inds, i, c) ==
    [k \in DOMAIN inds |->
        IF k = i
        THEN [key \in DOMAIN inds[k] \cup {"confidence"} |->
                 IF key = "confidence" THEN c ELSE inds[k][key]]
        ELSE inds[k]]

\* C8: raising the confidence of one indicator, the others and the brand
\* confidence fixed, never lowers the score.
C8_Monotone ==
    (scorePc # "call" /\ indicators # <<>>) =>
        \A i \in DOMAIN indicators, c \in IndicatorConfidences :
            RGeq(c, ConfidenceOf(indicators[i])) =>
                RGeq(CalculateCounterfeitConfidence(
                         brandConfidence, WithConfidence(indicators, i, c)),
                     confidence)

\* two indicators of different weight; raising the second one's confidence
\* from 0 to 1 raises the score
C8_Witness ==
    /\ scorePc = "scored"
    /\ brandConfidence = ROne
    /\ indicators = <<[indicator_type |-> "name_variation", confidence |-> ROne],
                      [indicator_type |-> "price_indicator", confidence |-> RZero]>>
    /\ RLt(confidence,
           CalculateCounterfeitConfidence(
               brandConfidence, WithConfidence(indicators, 2, ROne)))

-----------------------------------------------------------------------------
(* analyze_catalog_item, one listing: the inference service answers with a *)
(* candidate list, then with an indicator list for each candidate.         *)

MaxCandidates == 2

\* the graph the detector reads: one run of the builder
AnalysisStore ==
    UpsertBrandInfo(EmptyStore, Nike, "Fashion", "Apparel",
                    <<[name |-> "material", values |-> <<"leather", "mesh">>]>>,
                    <<Nikey, Nkie>>)

Listings ==
    {[title |-> "Nike Air Max 270 - Original Box"],
     [title |-> "Nikey AirMax Elite - 80% Off"]}

CandidateDicts ==
    {[brand_name |-> Nike, confidence |-> Rat(19, 20)],
     [brand_name |-> Nike, confidence |-> Rat(1, 1)],
     [brand_name |-> Nikey, confidence |-> Rat(4, 5)],
     [brand_name |-> Nikey, confidence |-> Rat(1, 1)]}

RECURSIVE CandidateListsUpTo(_)
CandidateListsUpTo(k) ==
    IF k = 0 THEN {<<>>}
    ELSE LET shorter == CandidateListsUpTo(k - 1)
         IN shorter \cup {Append(l, d) : l \in shorter, d \in CandidateDicts}

\* the indicator lists the inference service answers with
IndicatorResponses ==
    {<<>>,
     <<[indicator_type |-> "name_variation", confidence |-> Rat(9, 10)],
       [indicator_type |-> "price_indicator", confidence |-> Rat(7, 10)]>>,
     <<[indicator_type |-> "name_variation", confidence |-> Rat(4, 5)]>>,
     <<[indicator_type |-> "name_variation", confidence |-> Rat(7, 10)]>>,
     <<[indicator_type |-> "price_indicator", confidence |-> Rat(7, 10)]>>,
     <<[indicator_type |-> "description_red_flag", confidence |-> Rat(0, 1)]>>}

AnalysisInit ==
    /\ item \in Listings
    /\ brandCandidates = <<>>
    /\ enriched = <<>>
    /\ verdict = NONE
    /\ analysisPc = "extract"
    /\ store = AnalysisStore
    /\ upserts = 0
    /\ brandName = <<>>
    /\ context = NONE
    /\ SimIdle
    /\ ScoreIdle
    /\ PipelineIdle

\* Step 1: _extract_brand_candidates returns the service's candidate list
ExtractBrandCandidates ==
    /\ analysisPc = "extract"
    /\ \E candidates \in CandidateListsUpTo(MaxCandidates) :
          brandCandidates' = candidates
    /\ analysisPc' = "candidates"
    /\ UNCHANGED <<item, enriched, verdict>>
    /\ UNCHANGED <<pipelineVars, simVars, graphVars, scoreVars>>

\* Step 2, one turn of the loop: resolve the candidate, ask for its
\* indicators, append the enriched candidate
EnrichCandidate ==
    /\ analysisPc = "candidates"
    /\ Len(enriched) < Len(brandCandidates)
    /\ LET candidate == brandCandidates[Len(enriched) + 1]
           brand_name == candidate.brand_name
           brand_context == GetBrandContext(store, brand_name)
       IN /\ brandName' = brand_name
          /\ context' = brand_context
          /\ \E counterfeit_indicators \in IndicatorResponses :
                enriched' = Append(enriched,
                    [brand_name |-> brand_name,
                     detection_confidence |-> candidate.confidence,
                     brand_context |-> brand_context,
                     counterfeit_indicators |-> counterfeit_indicators,
                     is_counterfeit |-> Len(counterfeit_indicators) > 0,
                     counterfeit_confidence |->
                         CalculateCounterfeitConfidence(candidate.confidence,
                                                        counterfeit_indicators)])
    /\ UNCHANGED <<item, brandCandidates, verdict, analysisPc>>
    /\ UNCHANGED <<store, upserts>>
    /\ UNCHANGED <<pipelineVars, simVars, scoreVars>>

\* Step 3: the loop is over, the analysis is returned
ReturnAnalysis ==
    /\ analysisPc = "candidates"
    /\ Len(enriched) = Len(brandCandidates)
    /\ verdict' = FinalAnalysis(item, enriched)
    /\ analysisPc' = "done"
    /\ UNCHANGED <<item, brandCandidates, enriched>>
    /\ UNCHANGED <<pipelineVars, simVars, graphVars, scoreVars>>

AnalysisNext == ExtractBrandCandidates \/ EnrichCandidate \/ ReturnAnalysis

SpecAnalysis == AnalysisInit /\ [][AnalysisNext]_vars

\* C30: in every verdict analyze_catalog_item returns the two flags agree:
\* risk_level HIGH implies is_likely_counterfeit, is_likely_counterfeit
\* implies risk_level MEDIUM or HIGH, and risk_level is NONE exactly when
\* the score is 0.
C30_FlagsAgree ==
    analysisPc = "done" =>
        /\ verdict.risk_level = "HIGH" => verdict.is_likely_counterfeit
        /\ verdict.is_likely_counterfeit =>
              verdict.risk_level \in {"MEDIUM", "HIGH"}
        /\ verdict.risk_level = "NONE" <=> verdict.counterfeit_score = RZero

\* a score of 0.78 (indicator score 0.8, brand confidence 0.95): likely
\* counterfeit at MEDIUM risk
C30_Witness ==
    /\ analysisPc = "done"
    /\ verdict.counterfeit_score = Rat(39, 50)
    /\ verdict.is_likely_counterfeit
    /\ verdict.risk_level = "MEDIUM"

Analysed == analysisPc = "done"

\* C9: an empty indicator list scores 0 whatever the brand confidence; a
\* listing whose every candidate got no indicators has score 0, risk level
\* NONE and is not likely counterfeit.
C9_NoIndicators ==
    /\ \A i \in DOMAIN enriched :
          enriched[i].counterfeit_indicators = <<>> =>
             enriched[i].counterfeit_confidence = RZero
    /\ (/\ Analysed
        /\ \A i \in DOMAIN enriched : enriched[i].counterfeit_indicators = <<>>) =>
          /\ verdict.counterfeit_score = RZero
          /\ verdict.risk_level = "NONE"
          /\ verdict.is_likely_counterfeit = FALSE

\* the listing with the single candidate {Nike, 0.95} and no indicators
C9_Witness ==
    /\ Analysed
    /\ brandCandidates = <<[brand_name |-> Nike, confidence |-> Rat(19, 20)]>>
    /\ enriched[1].counterfeit_indicators = <<>>
    /\ verdict.counterfeit_score = RZero
    /\ verdict.risk_level = "NONE"

\* C10: the score is the largest final confidence of the candidates (0
\* without candidates); highest_risk_brand is the name of the first
\* candidate that reaches it, None only without candidates;
\* is_likely_counterfeit iff score > 0.7.
C10_FinalAnalysis ==
    Analysed =>
        LET cs == verdict.brand_candidates
            score == verdict.counterfeit_score
            reaching == {i \in DOMAIN cs : cs[i].counterfeit_confidence = score}
        IN /\ Len(cs) = Len(brandCandidates)
           /\ \A i \in DOMAIN cs :
                 /\ cs[i].brand_name = brandCandidates[i].brand_name
                 /\ cs[i].counterfeit_confidence =
                       CalculateCounterfeitConfidence(
                           brandCandidates[i].confidence,
                           cs[i].counterfeit_indicators)
           /\ cs = <<>> => (score = RZero /\ verdict.highest_risk_brand = NoBrand)
           /\ cs # <<>> =>
                 /\ reaching # {}
                 /\ \A i \in DOMAIN cs : RLeq(cs[i].counterfeit_confidence, score)
                 /\ \E i \in reaching :
                       /\ \A j \in reaching : i <= j
                       /\ verdict.highest_risk_brand = cs[i].brand_name
                 /\ verdict.highest_risk_brand # NoBrand
           /\ verdict.is_likely_counterfeit <=> RGt(score, Rat(7, 10))

\* two candidates of different name tie at exactly 0.7: the first is named
\* and the listing is not likely counterfeit
C10_Witness ==
    /\ Analysed
    /\ Len(enriched) = 2
    /\ enriched[1].brand_name = Nikey /\ enriched[2].brand_name = Nike
    /\ enriched[1].counterfeit_confidence = Rat(7, 10)
    /\ enriched[2].counterfeit_confidence = Rat(7, 10)
    /\ verdict.counterfeit_score = Rat(7, 10)
    /\ verdict.highest_risk_brand = Nikey
    /\ verdict.is_likely_counterfeit = FALSE

\* r, written with three decimals, is t / 1000
RoundsTo(r, t) ==
    /\ (2 * t - 1) * r.d <= 2000 * r.n
    /\ 2000 * r.n < (2 * t + 1) * r.d

\* the listing "Nikey AirMax Elite - 80% Off": the single candidate
\* {Nikey, 0.8}, answered with name_variation at 0.9 and price_indicator
\* at 0.7
NikeyScenario ==
    /\ Analysed
    /\ brandCandidates = <<[brand_name |-> Nikey, confidence |-> Rat(4, 5)]>>
    /\ enriched[1].counterfeit_indicators =
          <<[indicator_type |-> "name_variation", confidence |-> Rat(9, 10)],
            [indicator_type |-> "price_indicator", confidence |-> Rat(7, 10)]>>

\* C11 as the specification states it: in the Nikey scenario the indicator
\* score is 0.847, the final confidence 0.763 and the risk level HIGH.
C11_AsStated ==
    NikeyScenario =>
        /\ RoundsTo(IndicatorScore(enriched[1].counterfeit_indicators), 847)
        /\ RoundsTo(verdict.counterfeit_score, 763)
        /\ verdict.risk_level = "HIGH"

\* C11: in the Nikey scenario the weighted indicator score is
\* (0.9 * 1.0 + 0.7 * 0.7) / (1.0 + 0.7) = 139/170 (0.818), the final
\* confidence is 139/170 * (0.5 + 0.5 * 0.8) = 1251/1700 (0.736), which is
\* below 0.8, and the risk level is MEDIUM; the listing is likely
\* counterfeit (0.736 > 0.7) and Nikey is its highest-risk brand.
C11_NikeyScenario ==
    NikeyScenario =>
        /\ IndicatorScore(enriched[1].counterfeit_indicators) = Rat(139, 170)
        /\ RoundsTo(IndicatorScore(enriched[1].counterfeit_indicators), 818)
        /\ enriched[1].counterfeit_confidence = Rat(1251, 1700)
        /\ verdict.counterfeit_score = Rat(1251, 1700)
        /\ RoundsTo(verdict.counterfeit_score, 736)
        /\ verdict.risk_level = "MEDIUM"
        /\ verdict.is_likely_counterfeit = TRUE
        /\ verdict.highest_risk_brand = Nikey

\* the scenario, resolved by fuzzy match to Nike, has been analysed
C11_Witness ==
    /\ NikeyScenario
    /\ item = [title |-> "Nikey AirMax Elite - 80% Off"]
    /\ enriched[1].brand_context.brand = Nike
    /\ enriched[1].brand_context.similarity_score = Rat(4, 5)
    /\ verdict.risk_level = "MEDIUM"

-----------------------------------------------------------------------------
(* The detector package: CounterfeitDetector (detector.py) over            *)
(* MultiModalLLM (multi_modal.py) and BrandGraphClient (graph_client.py),  *)
(* and BatchProcessor (batch_processor.py) on top of it.  A listing, a     *)
(* brand record and a service reply are dicts; an exception that leaves a  *)
(* call is the record [raised |-> its kind].                               *)

Raised(kind) == [raised |-> kind]

IsRaised(outcome) == "raised" \in DOMAIN outcome

\* the inference service did not answer (network or service failure)
ServiceError == Raised("InferenceServiceError")

\* the graph store did not answer
GraphUnavailable == Raised("GraphUnavailable")

\* brand_detection_results[i]['primary_brand'] where the entry is None
NoneNotSubscriptable == Raised("TypeError")

\* n copies of x
Repeat(x, n) == [i \in 1..n |-> x]

\* MultiModalResponse.__init__: every field the reply lacks (or gives as
\* None or empty) takes its default
MultiModalResponse(doc) ==
    [brands |-> Get(doc, "brands", <<>>),
     similarity_score |-> Get(doc, "similarity_score", NULL),
     visual_issues |-> Get(doc, "visual_issues", <<>>),
     text_issues |-> Get(doc, "text_issues", <<>>),
     differences |-> Get(doc, "differences", <<>>),
     is_authentic |-> Get(doc, "is_authentic", NULL),
     confidence |-> Get(doc, "confidence", RZero)]

\* a faulty variant: the product is not capped
CalculateScoreUncapped(inds, conf) ==
    RMul(Rat(Len(inds) * 10, 1), conf)

\* calculate_score
CalculateScore(inds, conf) ==
    LET base_score == Len(inds) * 10
    IN RMin(Rat(100, 1), RMul(Rat(base_score, 1), conf))

\* compare_with_reference, given the service's reply
CompareWithReference(analysis) ==
    [match_score |-> analysis.similarity_score,
     visual_differences |-> analysis.differences,
     authentication_result |-> analysis.is_authentic]

\* the dict both analyses return
AnalysisResult(response, visual_comparison) ==
    LET differences == Get(visual_comparison, "visual_differences", <<>>)
        inds == response.visual_issues \o response.text_issues \o differences
    IN [score |-> CalculateScore(inds, response.confidence),
        confidence |-> response.confidence,
        indicators |-> inds,
        authentication_result |->
            Get(visual_comparison, "authentication_result", NULL)]

\* analyze_with_context(listing, brand_data): reply answers the analysis
\* prompt, cmp the comparison prompt (asked only when the listing has
\* images and the brand has reference images)
AnalyzeWithContext(listing, brand_data, reply, cmp) ==
    IF IsRaised(reply) THEN reply
    ELSE LET response == MultiModalResponse(reply)
             compares == /\ Get(listing, "images", <<>>) # <<>>
                         /\ Get(brand_data, "reference_images", <<>>) # <<>>
         IN IF compares /\ IsRaised(cmp) THEN cmp
            ELSE AnalysisResult(response,
                    IF compares
                    THEN CompareWithReference(MultiModalResponse(cmp))
                    ELSE <<>>)

\* the graph the client reads: reference images, attributes per product
\* and the variation cache loaded at construction
ClientGraph ==
    [attributes |-> [Nike |-> [Shoes |-> <<[attribute |-> "material",
                                           values |-> <<"mesh">>]>>]],
     reference_images |-> [Nike |-> <<"nike_reference_1.jpg">>],
     variation_cache |-> [Nike |-> <<"Nikey", "N1ke">>]]

\* the record get_brand_data and get_brands_data build for one brand
BrandRecord(brand) ==
    [name |-> brand,
     attributes |-> Get(ClientGraph.attributes, brand, <<>>),
     reference_images |-> Get(ClientGraph.reference_images, brand, <<>>),
     variations |-> Get(variationCache, brand, <<>>)]

\* a faulty variant: a lookup stores the default under a brand the cache
\* does not hold
CacheAfterLookupFilling(cache, brand) ==
    IF brand \in DOMAIN cache THEN cache ELSE cache @@ (brand :> <<>>)

\* self.variation_cache.get(brand, []): the cache after the lookup
CacheAfterLookup(cache, brand) == cache

\* the cache after the lookups of get_brand_data or get_brands_data for
\* each of brands in turn
RECURSIVE CacheAfterLookups(_, _)
CacheAfterLookups(cache, brands) ==
    IF brands = <<>> THEN cache
    ELSE CacheAfterLookups(CacheAfterLookup(cache, Head(brands)), Tail(brands))

\* the keys of a dict kept as a sequence of [key, value] pairs
Keys(pairs) == [i \in DOMAIN pairs |-> pairs[i].key]

\* a faulty variant: a record only for the brands the graph holds
GetBrandsDataKnownOnly(brands) ==
    [b \in {brands[i] : i \in DOMAIN brands} \cap DOMAIN ClientGraph.attributes
        |-> BrandRecord(b)]

\* get_brands_data(brands): brand -> record, for every brand asked
GetBrandsData(brands) ==
    [b \in {brands[i] : i \in DOMAIN brands} |-> BrandRecord(b)]

\* a faulty variant: the title is replaced by the detected brand as well
AnnotateOverTitle(listing, result) ==
    [k \in DOMAIN listing \cup {"detected_brand", "all_detected_brands"} |->
        IF k = "detected_brand" THEN result.primary_brand
        ELSE IF k = "all_detected_brands" THEN result.all_brands
        ELSE IF k = "title" THEN result.primary_brand
        ELSE listing[k]]

\* listing['detected_brand'] = ...; listing['all_detected_brands'] = ...
Annotate(listing, result) ==
    [k \in DOMAIN listing \cup {"detected_brand", "all_detected_brands"} |->
        IF k = "detected_brand" THEN result.primary_brand
        ELSE IF k = "all_detected_brands" THEN result.all_brands
        ELSE listing[k]]

\* a faulty variant: a new key is put in front of the earlier ones
AddToGroupInFront(groups, brand, idx) ==
    IF \E i \in DOMAIN groups : groups[i].key = brand
    THEN [i \in DOMAIN groups |->
            IF groups[i].key = brand
            THEN [key |-> brand, value |-> Append(groups[i].value, idx)]
            ELSE groups[i]]
    ELSE <<[key |-> brand, value |-> <<idx>>]>> \o groups

\* brand_groups[brand].append(listing), the key created at its first use;
\* a listing is held by reference: its index in listings
AddToGroup(groups, brand, idx) ==
    IF \E i \in DOMAIN groups : groups[i].key = brand
    THEN [i \in DOMAIN groups |->
            IF groups[i].key = brand
            THEN [key |-> brand, value |-> Append(groups[i].value, idx)]
            ELSE groups[i]]
    ELSE Append(groups, [key |-> brand, value |-> <<idx>>])

\* _batch_brand_detection, lines 117-129: brand_results starts as
\* [None] * len(listings) and takes the reply's entries in order
BrandResults(n, batch_brands) ==
    [k \in 1..n |-> IF k <= Len(batch_brands) THEN batch_brands[k] ELSE NONE]

\* the loop of _group_by_brand from its k-th turn on: subscripting a None
\* entry raises TypeError, after the earlier listings were annotated
RECURSIVE GroupLoop(_, _, _, _, _)
GroupLoop(ls, chunk, brand_results, groups, k) ==
    IF k > Len(chunk)
    THEN [listings |-> ls, brand_groups |-> groups, raised |-> FALSE]
    ELSE IF brand_results[k] = NONE
    THEN [listings |-> ls, brand_groups |-> groups, raised |-> TRUE]
    ELSE LET idx == chunk[k]
             annotated == Annotate(ls[idx], brand_results[k])
         IN GroupLoop([ls EXCEPT ![idx] = annotated], chunk, brand_results,
                      AddToGroup(groups, annotated.detected_brand, idx),
                      k + 1)

\* _group_by_brand(listings[i:i+batch_size]), given the reply of
\* extract_brands
GroupByBrand(ls, chunk, batch_brands) ==
    GroupLoop(ls, chunk, BrandResults(Len(chunk), batch_brands), <<>>, 1)

\* a faulty variant: one get_brand_data call for each listing of the chunk
PrefetchCallsPerListing(groups) ==
    LET RECURSIVE Calls(_, _)
        Calls(g, k) ==
            IF g > Len(groups) THEN <<>>
            ELSE IF k > Len(groups[g].value) THEN Calls(g + 1, 1)
            ELSE <<[op |-> "get_brand_data", brands |-> <<groups[g].key>>]>>
                 \o Calls(g, k + 1)
    IN Calls(1, 1)

\* _prefetch_brand_data: the calls it makes on the graph client
PrefetchCalls(groups) ==
    <<[op |-> "get_brands_data", brands |-> Keys(groups)]>>

\* the futures of process_batch in submission order: group by group, each
\* with the listing and brand_data.get(listing['detected_brand'], {})
RECURSIVE SubmitAll(_, _, _, _, _)
SubmitAll(ls, groups, brand_data, g, k) ==
    IF g > Len(groups) THEN <<>>
    ELSE IF k > Len(groups[g].value) THEN SubmitAll(ls, groups, brand_data, g + 1, 1)
    ELSE LET idx == groups[g].value[k]
         IN <<[listing |-> idx,
               brand_data |-> Get(brand_data, ls[idx].detected_brand, <<>>),
               state |-> "pending",
               outcome |-> NONE]>>
            \o SubmitAll(ls, groups, brand_data, g, k + 1)

\* listings[i:min(i+batch_size, total)], as indices into listings
Chunk(i, size, total) ==
    LET last == IF i + size < total THEN i + size ELSE total
    IN [k \in 1..(last - i) |-> i + k]

\* analyze_listing(listing), given the service's replies and whether the
\* graph answers: the graph calls made and the dict returned (or the
\* exception raised)
AnalyzeListing(listing, reply, cmp, graph_ok) ==
    IF IsRaised(reply) THEN [calls |-> <<>>, outcome |-> reply]
    ELSE LET response == MultiModalResponse(reply)
             detected_brands == response.brands
             calls == [i \in DOMAIN detected_brands |->
                         [op |-> "get_brand_data",
                          brands |-> <<detected_brands[i]>>]]
         IN IF detected_brands # <<>> /\ ~graph_ok
            THEN [calls |-> <<calls[1]>>, outcome |-> GraphUnavailable]
            ELSE LET compares ==
                         /\ Get(listing, "images", <<>>) # <<>>
                         /\ detected_brands # <<>>
                         /\ BrandRecord(detected_brands[1]).reference_images # <<>>
                 IN IF compares /\ IsRaised(cmp)
                    THEN [calls |-> calls, outcome |-> cmp]
                    ELSE [calls |-> calls,
                          outcome |-> AnalysisResult(response,
                              IF compares
                              THEN CompareWithReference(MultiModalResponse(cmp))
                              ELSE <<>>)]

-----------------------------------------------------------------------------
(* The entry points of the detector package on small datasets: the         *)
(* listings of the package's tests, and a service that answers each prompt *)
(* with one of a few replies or not at all.  Every listing text is far     *)
(* below the 15000 characters of _batch_brand_detection, so the brand      *)
(* detection of a chunk is one prompt.                                     *)

MaxListings == 3

BatchSizes == {1, 2, MaxListings + 1}

WorkerCounts == {1, 2}

Entries == {"process_large_dataset", "analyze_batch"}

TestListings ==
    {[id |-> "auth_1",
      title |-> "Nike Air Max 270 - Original Box",
      description |-> "Brand new Nike Air Max 270 shoes.",
      price |-> Rat(15099, 100),
      seller |-> "official_nike_store",
      seller_rating |-> Rat(49, 10),
      images |-> <<"nike_authentic_1.jpg", "nike_authentic_2.jpg">>],
     [id |-> "fake_1",
      title |-> "Nike Air Jordan - 80% Off Sale!!",
      description |-> "Brand new Nike shoes at amazing discount prices.",
      price |-> Rat(3999, 100),
      seller |-> "discount_kicks",
      seller_rating |-> Rat(32, 10),
      images |-> <<"fake_nike_1.jpg">>],
     [id |-> "fake_3",
      title |-> "Rolex Datejust Automatic Watch",
      description |-> "Luxury automatic watch, perfect replica.",
      price |-> Rat(19999, 100),
      seller |-> "luxury_watches_wholesale",
      seller_rating |-> Rat(31, 10),
      images |-> <<"fake_rolex_1.jpg">>]}

RECURSIVE ListingSeqsUpTo(_)
ListingSeqsUpTo(k) ==
    IF k = 0 THEN {<<>>}
    ELSE LET shorter == ListingSeqsUpTo(k - 1)
         IN shorter \cup {Append(l, d) : l \in {s \in shorter : Len(s) = k - 1},
                                         d \in TestListings}

\* the entry the brand-detection service gives for a listing
DetectedBrands(listing) ==
    IF listing.id = "fake_3"
    THEN [primary_brand |-> "Rolex", all_brands |-> <<"Rolex">>]
    ELSE IF listing.id = "fake_1"
    THEN [primary_brand |-> "Nike", all_brands |-> <<"Nike", "Air Jordan">>]
    ELSE [primary_brand |-> "Nike", all_brands |-> <<"Nike">>]

\* what extract_brands can meet for a chunk: an entry for every listing,
\* an entry for all but the last, a JSON object without "listings", or no
\* answer
DetectionReplies(ls, chunk) ==
    LET full == [k \in DOMAIN chunk |-> DetectedBrands(ls[chunk[k]])]
    IN {[listings |-> full],
        [listings |-> SubSeq(full, 1, Len(full) - 1)],
        [brands |-> full],
        ServiceError}

\* the replies to an analysis prompt
AnalysisReplies ==
    {[brands |-> <<"Nike">>, confidence |-> Rat(9, 10)],
     [brands |-> <<"Rolex", "Nike">>,
      visual_issues |-> <<"logo misaligned">>,
      text_issues |-> <<"price too low">>,
      confidence |-> Rat(9, 10)],
     [visual_issues |-> Repeat("blurry logo", 6),
      text_issues |-> Repeat("replica wording", 6),
      confidence |-> Rat(1, 1)],
     ServiceError}

\* the replies to a comparison prompt
CompareReplies ==
    {[differences |-> <<"stitching differs">>,
      is_authentic |-> FALSE,
      similarity_score |-> Rat(2, 5)],
     ServiceError}

BatchInit ==
    /\ entry \in Entries
    /\ listings \in ListingSeqsUpTo(MaxListings)
    /\ IF entry = "process_large_dataset"
       THEN batchSize \in BatchSizes /\ maxWorkers \in WorkerCounts
       ELSE batchSize = 1 /\ maxWorkers = 1
    /\ chunkStart = 0
    /\ brandGroups = <<>>
    /\ brandData = <<>>
    /\ futures = <<>>
    /\ batchResults = <<>>
    /\ results = <<>>
    /\ graphCalls = <<>>
    /\ variationCache = ClientGraph.variation_cache
    /\ pauses = 0
    /\ batchError = NONE
    /\ batchPc = IF entry = "process_large_dataset" THEN "split" ELSE "sequential"
    /\ FuzzyIdle
    /\ DetectIdle
    /\ ItemsIdle
    /\ CrewIdle
    /\ SimIdle
    /\ GraphIdle
    /\ ScoreIdle
    /\ AnalysisIdle

BatchFrame == UNCHANGED <<itemsVars, crewVars, fuzzyVars, detectVars,
                          simVars, graphVars, scoreVars, analysisVars>>

\* process_large_dataset, the head of its loop: the next chunk is handed
\* to process_batch
Split ==
    /\ batchPc = "split"
    /\ chunkStart < Len(listings)
    /\ batchPc' = "group"
    /\ UNCHANGED <<entry, listings, batchSize, maxWorkers, chunkStart,
                   brandGroups, brandData, futures, batchResults, results,
                   graphCalls>>
    /\ UNCHANGED <<variationCache, pauses, batchError>>
    /\ BatchFrame

\* process_large_dataset: the loop is over, return results
ReturnResults ==
    /\ batchPc = "split"
    /\ chunkStart >= Len(listings)
    /\ batchPc' = "returned"
    /\ UNCHANGED <<entry, listings, batchSize, maxWorkers, chunkStart,
                   brandGroups, brandData, futures, batchResults, results,
                   graphCalls>>
    /\ UNCHANGED <<variationCache, pauses, batchError>>
    /\ BatchFrame

\* process_batch: brand_groups = self._group_by_brand(listings)
GroupChunk ==
    /\ batchPc = "group"
    /\ LET chunk == Chunk(chunkStart, batchSize, Len(listings))
       IN \E reply \in DetectionReplies(listings, chunk) :
             IF IsRaised(reply)
             THEN /\ batchPc' = "raised"
                  /\ batchError' = reply
                  /\ UNCHANGED <<listings, brandGroups>>
             ELSE LET grouped == GroupByBrand(listings, chunk,
                                              Get(reply, "listings", <<>>))
                  IN /\ listings' = grouped.listings
                     /\ IF grouped.raised
                        THEN /\ batchPc' = "raised"
                             /\ batchError' = NoneNotSubscriptable
                             /\ UNCHANGED brandGroups
                        ELSE /\ batchPc' = "prefetch"
                             /\ brandGroups' = grouped.brand_groups
                             /\ UNCHANGED batchError
    /\ UNCHANGED <<entry, batchSize, maxWorkers, chunkStart, brandData,
                   futures, batchResults, results, graphCalls>>
    /\ UNCHANGED <<variationCache, pauses>>
    /\ BatchFrame

\* process_batch: brand_data = self._prefetch_brand_data(brand_groups.keys())
PrefetchChunk ==
    /\ batchPc = "prefetch"
    /\ graphCalls' = graphCalls \o PrefetchCalls(brandGroups)
    /\ \E graph_ok \in BOOLEAN :
          IF graph_ok
          THEN /\ brandData' = GetBrandsData(Keys(brandGroups))
               /\ variationCache' =
                     CacheAfterLookups(variationCache, Keys(brandGroups))
               /\ batchPc' = "submit"
               /\ UNCHANGED batchError
          ELSE /\ batchPc' = "raised"
               /\ batchError' = GraphUnavailable
               /\ UNCHANGED <<brandData, variationCache>>
    /\ UNCHANGED <<entry, listings, batchSize, maxWorkers, chunkStart,
                   brandGroups, futures, batchResults, results, pauses>>
    /\ BatchFrame

\* process_batch: every listing of every group is submitted to the pool
SubmitChunk ==
    /\ batchPc = "submit"
    /\ futures' = SubmitAll(listings, brandGroups, brandData, 1, 1)
    /\ batchPc' = "collect"
    /\ UNCHANGED <<entry, listings, batchSize, maxWorkers, chunkStart,
                   brandGroups, brandData, batchResults, results, graphCalls>>
    /\ UNCHANGED <<variationCache, pauses, batchError>>
    /\ BatchFrame

Pending == {k \in DOMAIN futures : futures[k].state = "pending"}

Running == {k \in DOMAIN futures : futures[k].state = "running"}

\* a faulty variant: the pool starts a task whatever the number running
WorkerFreeAlways == TRUE

\* ThreadPoolExecutor(max_workers=self.max_workers): a task starts only
\* on a worker that runs no task
WorkerFree == Cardinality(Running) < maxWorkers

\* a faulty variant: result() does not wait for the task
DoneAlways(future) == TRUE

\* future.result() returns (or raises) once the task has finished
Done(future) == future.state = "finished"

\* a faulty variant: the pause is taken after the last chunk as well
PauseDueAlways(i) == TRUE

\* if i + self.batch_size < total
PauseDue(i) == i + batchSize < Len(listings)

\* the pool: an idle worker takes the oldest pending task
StartTask ==
    /\ batchPc \in {"collect", "unwinding"}
    /\ Pending # {}
    /\ WorkerFree
    /\ LET k == CHOOSE p \in Pending : \A q \in Pending : p <= q
       IN futures' = [futures EXCEPT ![k].state = "running"]
    /\ UNCHANGED <<entry, listings, batchSize, maxWorkers, chunkStart,
                   brandGroups, brandData, batchResults, results, graphCalls,
                   batchPc>>
    /\ UNCHANGED <<variationCache, pauses, batchError>>
    /\ BatchFrame

\* a worker: _process_single_listing returns or raises
TaskReturn ==
    /\ batchPc \in {"collect", "unwinding"}
    /\ \E k \in Running, reply \in AnalysisReplies, cmp \in CompareReplies :
          futures' = [futures EXCEPT
                         ![k].state = "finished",
                         ![k].outcome =
                             AnalyzeWithContext(listings[futures[k].listing],
                                                futures[k].brand_data,
                                                reply, cmp)]
    /\ UNCHANGED <<entry, listings, batchSize, maxWorkers, chunkStart,
                   brandGroups, brandData, batchResults, results, graphCalls,
                   batchPc>>
    /\ UNCHANGED <<variationCache, pauses, batchError>>
    /\ BatchFrame

\* process_batch: results.append(future.result()) for the next future; a
\* task's exception is raised again here and leaves the with block
Collect ==
    /\ batchPc = "collect"
    /\ Len(batchResults) < Len(futures)
    /\ LET future == futures[Len(batchResults) + 1]
       IN /\ Done(future)
          /\ IF IsRaised(future.outcome)
             THEN /\ batchPc' = "unwinding"
                  /\ batchError' = future.outcome
                  /\ UNCHANGED batchResults
             ELSE /\ batchResults' = Append(batchResults, future.outcome)
                  /\ UNCHANGED <<batchPc, batchError>>
    /\ UNCHANGED <<entry, listings, batchSize, maxWorkers, chunkStart,
                   brandGroups, brandData, futures, results, graphCalls>>
    /\ UNCHANGED <<variationCache, pauses>>
    /\ BatchFrame

\* the with block is left by an exception: shutdown(wait=True) has waited
\* for every task, the exception leaves process_batch and
\* process_large_dataset
Unwound ==
    /\ batchPc = "unwinding"
    /\ \A k \in DOMAIN futures : futures[k].state = "finished"
    /\ batchPc' = "raised"
    /\ UNCHANGED <<entry, listings, batchSize, maxWorkers, chunkStart,
                   brandGroups, brandData, futures, batchResults, results,
                   graphCalls>>
    /\ UNCHANGED <<variationCache, pauses, batchError>>
    /\ BatchFrame

\* process_batch returns (the with block has waited for every task);
\* results.extend(batch_results)
ChunkReturn ==
    /\ batchPc = "collect"
    /\ Len(batchResults) = Len(futures)
    /\ \A k \in DOMAIN futures : Done(futures[k])
    /\ results' = results \o batchResults
    /\ brandGroups' = <<>>
    /\ brandData' = <<>>
    /\ futures' = <<>>
    /\ batchResults' = <<>>
    /\ batchPc' = "extended"
    /\ UNCHANGED <<entry, listings, batchSize, maxWorkers, chunkStart,
                   graphCalls>>
    /\ UNCHANGED <<variationCache, pauses, batchError>>
    /\ BatchFrame

\* process_large_dataset: time.sleep(1) when a chunk follows
Pause ==
    /\ batchPc = "extended"
    /\ PauseDue(chunkStart)
    /\ pauses' = pauses + 1
    /\ chunkStart' = chunkStart + batchSize
    /\ batchPc' = "split"
    /\ UNCHANGED <<entry, listings, batchSize, maxWorkers, brandGroups,
                   brandData, futures, batchResults, results, graphCalls,
                   variationCache, batchError>>
    /\ BatchFrame

\* no pause after the last chunk: the next i ends the loop
NoPause ==
    /\ batchPc = "extended"
    /\ ~PauseDue(chunkStart)
    /\ chunkStart' = chunkStart + batchSize
    /\ batchPc' = "split"
    /\ UNCHANGED <<entry, listings, batchSize, maxWorkers, brandGroups,
                   brandData, futures, batchResults, results, graphCalls>>
    /\ UNCHANGED <<variationCache, pauses, batchError>>
    /\ BatchFrame

\* analyze_batch, one turn of its loop: results.append(analyze_listing(l))
AnalyzeNext ==
    /\ batchPc = "sequential"
    /\ Len(results) < Len(listings)
    /\ \E reply \in AnalysisReplies, cmp \in CompareReplies,
          graph_ok \in BOOLEAN :
          LET done == AnalyzeListing(listings[Len(results) + 1], reply, cmp,
                                     graph_ok)
          IN /\ graphCalls' = graphCalls \o done.calls
             /\ variationCache' =
                   IF done.outcome = GraphUnavailable THEN variationCache
                   ELSE CacheAfterLookups(variationCache,
                           [i \in DOMAIN done.calls |-> done.calls[i].brands[1]])
             /\ IF IsRaised(done.outcome)
                THEN /\ batchPc' = "raised"
                     /\ batchError' = done.outcome
                     /\ UNCHANGED results
                ELSE /\ results' = Append(results, done.outcome)
                     /\ UNCHANGED <<batchPc, batchError>>
    /\ UNCHANGED <<entry, listings, batchSize, maxWorkers, chunkStart,
                   brandGroups, brandData, futures, batchResults, pauses>>
    /\ BatchFrame

\* analyze_batch: return results
AnalyzeBatchReturn ==
    /\ batchPc = "sequential"
    /\ Len(results) = Len(listings)
    /\ batchPc' = "returned"
    /\ UNCHANGED <<entry, listings, batchSize, maxWorkers, chunkStart,
                   brandGroups, brandData, futures, batchResults, results,
                   graphCalls>>
    /\ UNCHANGED <<variationCache, pauses, batchError>>
    /\ BatchFrame

BatchNext ==
    \/ Split \/ ReturnResults \/ GroupChunk \/ PrefetchChunk \/ SubmitChunk
    \/ StartTask \/ TaskReturn \/ Collect \/ Unwound \/ ChunkReturn
    \/ Pause \/ NoPause
    \/ AnalyzeNext \/ AnalyzeBatchReturn

SpecBatch == BatchInit /\ [][BatchNext]_vars

Returned12 == entry = "process_large_dataset" /\ batchPc = "returned"

\* how many dicts of seq carry the identifier id
IdCount(seq, id) ==
    Cardinality({i \in DOMAIN seq : "id" \in DOMAIN seq[i] /\ seq[i].id = id})

ListingIds == {l.id : l \in TestListings}

\* C12 as the specification states it: process_large_dataset on N
\* listings returns exactly N results, and the multiset of listing
\* identifiers carried by the results is that of the input.
C12_AsStated ==
    Returned12 =>
        /\ Len(results) = Len(listings)
        /\ \A id \in ListingIds : IdCount(results, id) = IdCount(listings, id)

\* C13 as the specification states it: a failing analysis task does not
\* abort process_large_dataset; the call completes with one result for
\* every listing.
C13_AsStated ==
    entry = "process_large_dataset" =>
        /\ ~(/\ batchPc = "raised"
             /\ \E k \in DOMAIN futures : IsRaised(futures[k].outcome))
        /\ batchPc = "returned" => Len(results) = Len(listings)

\* every result dict an entry point holds or has handed over
AllResults ==
    {results[i] : i \in DOMAIN results}
    \cup {batchResults[i] : i \in DOMAIN batchResults}
    \cup {futures[k].outcome : k \in {j \in DOMAIN futures :
                                        /\ futures[j].state = "finished"
                                        /\ ~IsRaised(futures[j].outcome)}}

\* C17 as the specification states it: every score lies in [0, 1].
C17_AsStated ==
    \A r \in AllResults : RLeq(RZero, r.score) /\ RLeq(r.score, ROne)

\* C17: every result of analyze_listing, analyze_batch and
\* process_large_dataset has a score in [0, 100]: it is
\* min(100, 10 * number of indicators * confidence), for an inference
\* confidence in [0, 1].
C17_ScoreRange ==
    \A r \in AllResults :
        /\ RLeq(RZero, r.confidence) /\ RLeq(r.confidence, ROne)
        /\ RLeq(RZero, r.score) /\ RLeq(r.score, Rat(100, 1))
        /\ LET points == RMul(Rat(10 * Len(r.indicators), 1), r.confidence)
           IN r.score = IF RLeq(points, Rat(100, 1)) THEN points
                        ELSE Rat(100, 1)

\* process_large_dataset has returned a result at the cap (13 indicators
\* at confidence 1) and one of 18 points (2 indicators at 0.9)
C17_Witness ==
    /\ Returned12
    /\ \E i, j \in DOMAIN results :
          /\ Len(results[i].indicators) = 13
          /\ results[i].score = Rat(100, 1)
          /\ Len(results[j].indicators) = 2
          /\ results[j].score = Rat(18, 1)

\* the chunks process_large_dataset has finished
ChunksDone == chunkStart \div batchSize

\* the listings of the c-th chunk (c = 0, 1, ...), as indices
ChunkAt(c) == Chunk(c * batchSize, batchSize, Len(listings))

\* C18: process_large_dataset calls get_brands_data once for each chunk
\* whose grouping succeeded, with the distinct primary brands of that
\* chunk, whatever the number of listings in the chunk; it makes no other
\* graph call, so none while the chunk's tasks run.
C18_PrefetchOnce ==
    entry = "process_large_dataset" =>
        /\ \A c \in DOMAIN graphCalls :
              /\ graphCalls[c].op = "get_brands_data"
              /\ LET brands == graphCalls[c].brands
                     chunk == ChunkAt(c - 1)
                 IN /\ Cardinality({brands[i] : i \in DOMAIN brands}) = Len(brands)
                    /\ {brands[i] : i \in DOMAIN brands} =
                          {listings[chunk[k]].detected_brand : k \in DOMAIN chunk}
        /\ batchPc \in {"split", "group", "prefetch", "returned"} =>
              Len(graphCalls) = ChunksDone
        /\ batchPc \in {"submit", "collect", "unwinding", "extended"} =>
              Len(graphCalls) = ChunksDone + 1
        /\ batchPc = "raised" =>
              Len(graphCalls) \in {ChunksDone, ChunksDone + 1}

\* a chunk of three listings with two distinct brands: all three tasks
\* have run after the one call
C18_Witness ==
    /\ entry = "process_large_dataset"
    /\ batchPc = "collect"
    /\ Len(futures) = 3
    /\ \A k \in DOMAIN futures : futures[k].state = "finished"
    /\ graphCalls = <<[op |-> "get_brands_data", brands |-> <<"Nike", "Rolex">>]>>

CallerFields ==
    {"id", "title", "description", "price", "seller", "seller_rating", "images"}

DerivedFields == {"detected_brand", "all_detected_brands"}

\* C19: no step of process_large_dataset changes a caller's listing other
\* than by attaching detected_brand and all_detected_brands: the list keeps
\* its length and every listing its identifier, title, description, price,
\* seller, seller rating and images.
C19_ListingsFrame ==
    [][/\ Len(listings') = Len(listings)
       /\ \A i \in DOMAIN listings :
             /\ DOMAIN listings[i] \subseteq DOMAIN listings'[i]
             /\ DOMAIN listings'[i] \subseteq DOMAIN listings[i] \cup DerivedFields
             /\ \A f \in CallerFields : listings'[i][f] = listings[i][f]]_vars

\* process_large_dataset has returned and every listing was annotated
C19_Witness ==
    /\ Returned12
    /\ Len(listings) = 3
    /\ \A i \in DOMAIN listings :
          /\ DOMAIN listings[i] = CallerFields \cup DerivedFields
          /\ listings[i].detected_brand = DetectedBrands(listings[i]).primary_brand

\* the number of chunks of the dataset: ceil(total / batch_size)
NumChunks == (Len(listings) + batchSize - 1) \div batchSize

\* the chunks left behind that have a successor
ChunksWithSuccessor ==
    {c \in 0..(ChunksDone - 1) : (c + 1) * batchSize < Len(listings)}

\* C22: chunks are processed one after the other: every task submitted or
\* running belongs to the current chunk, and the results of all earlier
\* chunks were appended before it began; the pause is taken once after each
\* chunk that has a successor and never after the last, so a call that
\* returns has made (number of chunks - 1) pauses, none for an empty input.
C22_SequentialChunks ==
    entry = "process_large_dataset" =>
        /\ \A k \in DOMAIN futures :
              /\ futures[k].listing \in Range(ChunkAt(ChunksDone))
              /\ batchPc \in {"collect", "unwinding", "raised"}
        /\ batchPc \in {"group", "prefetch", "submit", "collect", "unwinding"} =>
              Len(results) = chunkStart
        /\ batchPc = "extended" =>
              /\ futures = <<>>
              /\ Len(results) = chunkStart + Len(ChunkAt(ChunksDone))
        /\ pauses = Cardinality(ChunksWithSuccessor)
        /\ batchPc = "returned" =>
              pauses = (IF Len(listings) = 0 THEN 0 ELSE NumChunks - 1)

\* the second chunk of a dataset of three is being analysed: the two
\* results of the first chunk are in, one pause was made
C22_Witness ==
    /\ entry = "process_large_dataset"
    /\ batchPc = "collect"
    /\ Len(listings) = 3
    /\ batchSize = 2
    /\ chunkStart = 2
    /\ Len(results) = 2
    /\ Len(futures) = 1
    /\ futures[1].listing = 3
    /\ futures[1].state = "running"
    /\ pauses = 1

\* the listings of the current chunk
CurrentChunk == Range(ChunkAt(ChunksDone))

\* the prefetch of the current chunk was issued
PrefetchIssued == Len(graphCalls) = ChunksDone + 1

\* C23: within a chunk the stages come in the order GroupByBrand, Prefetch,
\* ParallelAnalyze, Merge: the prefetch is issued only after every listing
\* of the chunk has its primary brand, no task is submitted before the
\* prefetch has returned, and the chunk's results are returned only after
\* every submitted task has completed.
C23_StageOrder ==
    /\ [](entry = "process_large_dataset" =>
            /\ (PrefetchIssued /\ batchPc # "returned") =>
                  \A i \in CurrentChunk : "detected_brand" \in DOMAIN listings[i]
            /\ futures # <<>> =>
                  /\ PrefetchIssued
                  /\ DOMAIN brandData =
                        {listings[i].detected_brand : i \in CurrentChunk})
    /\ [][entry = "process_large_dataset" =>
            /\ (futures = <<>> /\ futures' # <<>>) =>
                  /\ batchPc = "submit"
                  /\ PrefetchIssued
                  /\ {futures'[k].listing : k \in DOMAIN futures'} = CurrentChunk
            /\ (batchPc # "extended" /\ batchPc' = "extended") =>
                  /\ \A k \in DOMAIN futures : futures[k].state = "finished"
                  /\ results' = results \o [k \in DOMAIN futures |->
                                               futures[k].outcome]]_vars

\* a chunk of three listings went through the four stages: one prefetch,
\* three results merged
C23_Witness ==
    /\ entry = "process_large_dataset"
    /\ batchPc = "extended"
    /\ batchSize = MaxListings + 1
    /\ Len(listings) = 3
    /\ Len(graphCalls) = 1
    /\ Len(results) = 3
    /\ \A i \in DOMAIN listings : "detected_brand" \in DOMAIN listings[i]

\* C24: every listing of a chunk is submitted to the pool exactly once, and
\* its task receives the prefetched record of that listing's own primary
\* brand: never the record of another brand and never the empty default,
\* the prefetch result holding an entry for every primary brand of the
\* chunk.
C24_OwnBrandRecord ==
    (entry = "process_large_dataset" /\ futures # <<>>) =>
        /\ Len(futures) = Cardinality(CurrentChunk)
        /\ {futures[k].listing : k \in DOMAIN futures} = CurrentChunk
        /\ \A i \in CurrentChunk : listings[i].detected_brand \in DOMAIN brandData
        /\ \A k \in DOMAIN futures :
              LET brand == listings[futures[k].listing].detected_brand
              IN /\ "name" \in DOMAIN futures[k].brand_data
                 /\ futures[k].brand_data.name = brand
                 /\ futures[k].brand_data = brandData[brand]

\* three listings of two brands: the Rolex listing, input second, is
\* submitted last with the record of "Rolex", a brand the graph does not
\* hold
C24_Witness ==
    /\ entry = "process_large_dataset"
    /\ batchPc = "collect"
    /\ Len(futures) = 3
    /\ listings[2].detected_brand = "Rolex"
    /\ futures[3].listing = 2
    /\ futures[3].brand_data.name = "Rolex"
    /\ futures[3].brand_data.reference_images = <<>>
    /\ futures[1].brand_data.name = "Nike"
    /\ futures[2].brand_data.name = "Nike"

\* C25: at every moment of a process_large_dataset call at most
\* max_workers analysis tasks are executing, for every chunk size and every
\* interleaving; a task starts only when fewer than max_workers are
\* executing, so the tasks beyond the bound wait for a free worker.
C25_BoundedWorkers ==
    /\ [](Cardinality(Running) <= maxWorkers)
    /\ [][\A k \in DOMAIN futures :
             (/\ futures[k].state = "pending"
              /\ k \in DOMAIN futures'
              /\ futures'[k].state = "running") =>
                 Cardinality(Running) < maxWorkers]_vars

\* a chunk of three listings on two workers: two tasks execute, the third
\* waits
C25_Witness ==
    /\ entry = "process_large_dataset"
    /\ maxWorkers = 2
    /\ Len(futures) = 3
    /\ Cardinality(Running) = 2
    /\ Cardinality(Pending) = 1

\* the ParallelAnalyze stage of a chunk
Analysing == batchPc \in {"collect", "unwinding"}

\* C26: the variation cache holds what was loaded at the construction of
\* BrandGraphClient and no get_brand_data or get_brands_data call changes
\* it; while the tasks of a chunk run, no step writes to the cache, to the
\* prefetched brand_data (nor to the record a task was handed) or to a
\* listing, under every interleaving of the workers.
C26_ReadOnlyCache ==
    /\ [](variationCache = ClientGraph.variation_cache)
    /\ [][variationCache' = variationCache]_vars
    /\ [][(Analysing /\ Analysing') =>
             /\ brandData' = brandData
             /\ listings' = listings
             /\ \A k \in DOMAIN futures :
                   /\ futures'[k].brand_data = futures[k].brand_data
                   /\ futures'[k].listing = futures[k].listing]_vars

\* the prefetch looked up "Rolex", which the cache does not hold, and two
\* tasks have finished: the cache is as loaded
C26_Witness ==
    /\ entry = "process_large_dataset"
    /\ batchPc = "collect"
    /\ "Rolex" \in DOMAIN brandData
    /\ brandData["Rolex"].variations = <<>>
    /\ Cardinality({k \in DOMAIN futures : futures[k].state = "finished"}) = 2
    /\ variationCache = ClientGraph.variation_cache
    /\ DOMAIN variationCache = {"Nike"}

\* the primary brand of the listing at index i
BrandAt(i) == listings[i].detected_brand

\* where the brand of listing i first appears in the current chunk
FirstAppearance(i) ==
    CHOOSE f \in CurrentChunk :
        /\ BrandAt(f) = BrandAt(i)
        /\ \A g \in CurrentChunk : BrandAt(g) = BrandAt(i) => f <= g

\* the listings of each brand stand next to each other in the chunk
ContiguousByBrand ==
    \A i, j, l \in CurrentChunk :
        (i < j /\ j < l /\ BrandAt(i) = BrandAt(l)) => BrandAt(j) = BrandAt(i)

MainThread ==
    \/ Split \/ ReturnResults \/ GroupChunk \/ PrefetchChunk \/ SubmitChunk
    \/ Collect \/ Unwound \/ ChunkReturn \/ Pause \/ NoPause
    \/ AnalyzeNext \/ AnalyzeBatchReturn

\* the batch entry points under fair scheduling: the calling thread runs
\* whenever it can, the pool hands a pending task to a free worker, and a
\* worker's service calls come back (with an answer or an exception)
SpecBatchFair ==
    /\ BatchInit
    /\ [][BatchNext]_vars
    /\ WF_vars(MainThread)
    /\ WF_vars(StartTask)
    /\ WF_vars(TaskReturn)

\* an inference or graph call did not return: its exception left the call
CallFailed == batchError \in {ServiceError, GraphUnavailable}

\* C27, the part about waiting: no task waits on another task, so under
\* fair scheduling every submitted task finishes while its chunk is still
\* being collected, and the entry point ends (by returning or by raising),
\* whatever the chunk size, the number of workers and of listings.
C27_NoDeadlock ==
    /\ (batchPc = "collect") ~>
          (futures # <<>> /\ \A k \in DOMAIN futures : Done(futures[k]))
    /\ <>(batchPc \in {"returned", "raised"})

\* C27 as the specification states it: under fair scheduling, in a run
\* where every inference and graph call returns, process_large_dataset
\* eventually returns.
C27_AsStated ==
    (entry = "process_large_dataset") =>
        <>(batchPc = "returned" \/ (batchPc = "raised" /\ CallFailed))

-----------------------------------------------------------------------------
(* analyze_catalog_items: the sequential batch of counterfeit_detector.py, *)
(* with the failures of its collaborators.  The content of a service reply *)
(* is text: exactly a JSON document ("json"), a JSON array wrapped in prose *)
(* or markdown that has no brackets of its own ("fenced"), prose without   *)
(* brackets ("prose") or prose with brackets that enclose no JSON          *)
(* ("prose_brackets").  A parsed JSON array is [kind |-> "array", elems],  *)
(* a parsed JSON object [kind |-> "object", pairs]; an object inside an    *)
(* array is a dict, a function on its keys.                                *)

JArray(elems) == [kind |-> "array", elems |-> elems]

JObject(pairs) == [kind |-> "object", pairs |-> pairs]

\* lines 136-148 and 353-365: json.loads(result), else json.loads of the
\* part from the first '[' to the last ']', else []
ParseContent(reply) ==
    IF reply.text = "json" THEN reply.doc
    ELSE IF reply.text = "fenced" THEN reply.doc
    ELSE JArray(<<>>)

\* the try blocks of _extract_brand_candidates and
\* _check_counterfeit_indicators, given the service's reply: a failed call
\* is printed and gives []
ExtractJsonList(reply) ==
    IF IsRaised(reply) THEN JArray(<<>>)
    ELSE ParseContent(reply)

\* what a for loop over the parsed value visits: the elements of a list,
\* the keys (str) of a dict
Iterate(parsed) ==
    IF parsed.kind = "array" THEN parsed.elems
    ELSE [i \in DOMAIN parsed.pairs |-> [py_str |-> parsed.pairs[i].key]]

\* len(...) of the parsed value
Length(parsed) ==
    IF parsed.kind = "array" THEN Len(parsed.elems) ELSE Len(parsed.pairs)

\* a faulty variant: the error record does not carry the item
ErrorRecordWithoutItem(it, e) == [error |-> e]

\* the except branch of analyze_catalog_items; analysis_timestamp, the wall
\* clock, is left out
ErrorRecord(it, e) == [item |-> it, error |-> e]

MaxItems == 2

RECURSIVE ItemSeqsUpTo(_)
ItemSeqsUpTo(k) ==
    IF k = 0 THEN {<<>>}
    ELSE LET shorter == ItemSeqsUpTo(k - 1)
         IN shorter \cup {Append(l, d) : l \in {s \in shorter : Len(s) = k - 1},
                                         d \in Listings}

NikeCandidate == [brand_name |-> Nike, confidence |-> Rat(19, 20)]

NikeyCandidate == [brand_name |-> Nikey, confidence |-> Rat(4, 5)]

\* the replies to the brand-candidate prompt
CandidateReplies ==
    {[text |-> "json", doc |-> JArray(<<NikeCandidate>>)],
     [text |-> "json", doc |-> JArray(<<NikeCandidate, [brand_name |-> Nikey]>>)],
     [text |-> "fenced", doc |-> JArray(<<NikeyCandidate>>)],
     [text |-> "prose"],
     [text |-> "prose_brackets"],
     [text |-> "json",
      doc |-> JObject(<<[key |-> "brands", value |-> <<NikeyCandidate>>]>>)],
     [text |-> "json", doc |-> JArray(<<[confidence |-> Rat(4, 5)]>>)],
     ServiceError}

\* the replies to the indicator prompt
IndicatorReplies ==
    {[text |-> "json", doc |-> JArray(<<>>)],
     [text |-> "json",
      doc |-> JArray(<<[indicator_type |-> "name_variation",
                        confidence |-> Rat(9, 10)],
                       [indicator_type |-> "price_indicator",
                        confidence |-> Rat(7, 10)]>>)],
     [text |-> "json",
      doc |-> JArray(<<[description |-> "suspicious wording"]>>)],
     [text |-> "prose"],
     [text |-> "json",
      doc |-> JObject(<<[key |-> "indicators", value |-> <<>>]>>)],
     ServiceError}

ItemsInit ==
    /\ catalogItems \in ItemSeqsUpTo(MaxItems)
    /\ itemResults = <<>>
    /\ printed = <<>>
    /\ itemsPc = "loop"
    /\ AnalysisIdle
    /\ store = AnalysisStore
    /\ upserts = 0
    /\ brandName = <<>>
    /\ context = NONE
    /\ BatchIdle
    /\ CrewIdle
    /\ FuzzyIdle
    /\ DetectIdle
    /\ SimIdle
    /\ ScoreIdle

ItemsFrame == UNCHANGED <<batchVars, crewVars, fuzzyVars, detectVars,
                          simVars, scoreVars, store, upserts, catalogItems,
                          verdict>>

\* the item under analysis is the one after the results so far
CurrentItem == Len(itemResults) + 1

\* print(f"Error ..."): the lines the two try blocks print for a reply,
\* what being "extracting brand candidates" or "checking counterfeit
\* indicators": the call failed, or its content is no JSON
PrintedFor(what, reply) ==
    IF IsRaised(reply)
    THEN <<[item |-> CurrentItem, line |-> "Error", what |-> what]>>
    ELSE IF reply.text \in {"prose", "prose_brackets"}
    THEN <<[item |-> CurrentItem, line |-> "Error parsing", what |-> what]>>
    ELSE <<>>

\* print(f"Error analyzing item ...") of analyze_catalog_items
PrintedForItem == <<[item |-> CurrentItem, line |-> "Error analyzing item",
                     what |-> "item"]>>

\* the item's analysis is over: its result is appended, the loop goes on
ItemDone(result) ==
    /\ itemResults' = Append(itemResults, result)
    /\ item' = <<>>
    /\ brandCandidates' = <<>>
    /\ enriched' = <<>>
    /\ analysisPc' = "idle"

\* analyze_catalog_items takes the next item; analyze_catalog_item, step 1:
\* brand_candidates = self._extract_brand_candidates(item)
ItemExtract ==
    /\ itemsPc = "loop"
    /\ analysisPc = "idle"
    /\ CurrentItem <= Len(catalogItems)
    /\ item' = catalogItems[CurrentItem]
    /\ \E reply \in CandidateReplies :
          /\ brandCandidates' = Iterate(ExtractJsonList(reply))
          /\ printed' = printed \o PrintedFor("brand candidates", reply)
    /\ enriched' = <<>>
    /\ analysisPc' = "candidates"
    /\ UNCHANGED <<itemResults, itemsPc, brandName, context>>
    /\ ItemsFrame

\* step 2, one turn of the loop, inside the try of analyze_catalog_items:
\* subscripting the candidate, the graph lookup, the indicator check and
\* the confidence; an exception ends the item with an error record
ItemEnrich ==
    /\ itemsPc = "loop"
    /\ analysisPc = "candidates"
    /\ Len(enriched) < Len(brandCandidates)
    /\ LET candidate == brandCandidates[Len(enriched) + 1]
       IN IF "py_str" \in DOMAIN candidate
          THEN /\ ItemDone(ErrorRecord(item, "TypeError: string indices must be integers"))
               /\ printed' = printed \o PrintedForItem
               /\ UNCHANGED <<brandName, context>>
          ELSE IF "brand_name" \notin DOMAIN candidate
          THEN /\ ItemDone(ErrorRecord(item, "KeyError: 'brand_name'"))
               /\ printed' = printed \o PrintedForItem
               /\ UNCHANGED <<brandName, context>>
          ELSE IF "confidence" \notin DOMAIN candidate
          THEN /\ ItemDone(ErrorRecord(item, "KeyError: 'confidence'"))
               /\ printed' = printed \o PrintedForItem
               /\ UNCHANGED <<brandName, context>>
          ELSE
            LET brand_name == candidate.brand_name
                brand_context == GetBrandContext(store, brand_name)
            IN /\ brandName' = brand_name
               /\ \E graph_ok \in BOOLEAN :
                     IF ~graph_ok
                     THEN /\ ItemDone(ErrorRecord(item, "GraphUnavailable"))
                          /\ printed' = printed \o PrintedForItem
                          /\ UNCHANGED context
                     ELSE /\ context' = brand_context
                          /\ \E reply \in IndicatorReplies :
                                LET parsed == ExtractJsonList(reply)
                                    lines == PrintedFor("counterfeit indicators", reply)
                                IN IF parsed.kind = "object" /\ Length(parsed) > 0
                                      THEN /\ ItemDone(ErrorRecord(item,
                                                "AttributeError: 'str' object has no attribute 'get'"))
                                           /\ printed' = printed \o lines \o PrintedForItem
                                      ELSE /\ printed' = printed \o lines
                                           /\ enriched' = Append(enriched,
                                                [brand_name |-> brand_name,
                                                 detection_confidence |-> candidate.confidence,
                                                 brand_context |-> brand_context,
                                                 counterfeit_indicators |-> Iterate(parsed),
                                                 is_counterfeit |-> Length(parsed) > 0,
                                                 counterfeit_confidence |->
                                                     CalculateCounterfeitConfidence(
                                                         candidate.confidence,
                                                         Iterate(parsed))])
                                           /\ UNCHANGED <<itemResults, item,
                                                          brandCandidates, analysisPc>>
    /\ UNCHANGED itemsPc
    /\ ItemsFrame

\* step 3: analyze_catalog_item returns, results.append(result)
ItemReturn ==
    /\ itemsPc = "loop"
    /\ analysisPc = "candidates"
    /\ Len(enriched) = Len(brandCandidates)
    /\ ItemDone(FinalAnalysis(item, enriched))
    /\ UNCHANGED <<printed, itemsPc, brandName, context>>
    /\ ItemsFrame

\* the loop is over: detector.close(); return results
ItemsReturn ==
    /\ itemsPc = "loop"
    /\ analysisPc = "idle"
    /\ CurrentItem > Len(catalogItems)
    /\ itemsPc' = "returned"
    /\ UNCHANGED <<itemResults, printed, item, brandCandidates, enriched,
                   analysisPc, brandName, context>>
    /\ ItemsFrame

ItemsNext == ItemExtract \/ ItemEnrich \/ ItemReturn \/ ItemsReturn

SpecItems == ItemsInit /\ [][ItemsNext]_vars

\* C14: analyze_catalog_items returns exactly one result per input item, in
\* input order; an exception while analysing an item (a graph-store failure
\* during resolution included) gives that item an error record carrying the
\* original item and the error message, printed as "Error analyzing item",
\* and every later item is still analysed, so that each result is a verdict
\* or an error record.
C14_OneResultPerItem ==
    /\ Len(itemResults) <= Len(catalogItems)
    /\ itemsPc = "returned" => Len(itemResults) = Len(catalogItems)
    /\ \A i \in DOMAIN itemResults :
          /\ "item" \in DOMAIN itemResults[i]
          /\ itemResults[i].item = catalogItems[i]
          /\ \/ DOMAIN itemResults[i] = {"item", "error"}
             \/ /\ "error" \notin DOMAIN itemResults[i]
                /\ "risk_level" \in DOMAIN itemResults[i]
          /\ "error" \in DOMAIN itemResults[i] <=>
                \E k \in DOMAIN printed :
                    /\ printed[k].item = i
                    /\ printed[k].line = "Error analyzing item"

\* the graph store failed on the first of two items and the second item
\* got a verdict with a resolved candidate
C14_Witness ==
    /\ itemsPc = "returned"
    /\ Len(catalogItems) = 2
    /\ itemResults[1] = ErrorRecord(catalogItems[1], "GraphUnavailable")
    /\ "error" \notin DOMAIN itemResults[2]
    /\ Len(itemResults[2].brand_candidates) = 1

\* the items whose inference call failed: the line the try blocks print for
\* a failed call
InferenceFailed(i) ==
    \E k \in DOMAIN printed : printed[k].item = i /\ printed[k].line = "Error"

\* C15, as stated: a failure of the inference call made for a listing is
\* recorded as an error entry on that listing's result; a listing whose
\* inference call failed is never reported as an error-free verdict.
C15_AsStated ==
    \A i \in DOMAIN itemResults :
        InferenceFailed(i) => "error" \in DOMAIN itemResults[i]

\* the exceptions a reply of the wrong shape raises in analyze_catalog_item
ShapeErrors ==
    {"TypeError: string indices must be integers",
     "KeyError: 'brand_name'",
     "KeyError: 'confidence'",
     "AttributeError: 'str' object has no attribute 'get'"}

\* C16, as stated: a malformed inference response (not parseable, not of
\* the expected shape, or with entries missing required fields) is handled
\* fail-open: no exception escapes the per-listing analysis and the listing
\* still receives a verdict.
C16_AsStated ==
    \A i \in DOMAIN itemResults :
        "error" \in DOMAIN itemResults[i] =>
            itemResults[i].error \notin ShapeErrors

-----------------------------------------------------------------------------
(* update_graph of BrandGraphCrew (core/crew_definition.py): what the crew  *)
(* hands the graph updater after a run.  The text of a task output or of    *)
(* an agent's reply is modelled as for the detector, but json.loads is used *)
(* here without the bracket extraction: only "json" text parses.  The graph *)
(* the updater writes is a function of the calls it receives (every write   *)
(* is a MERGE), so the calls and their outcomes are the state kept.         *)

MaxBrands == 2

DiscoveredNames == {"BrandA", "BrandB"}

RECURSIVE BrandSeqsUpTo(_)
BrandSeqsUpTo(k) ==
    IF k = 0 THEN {<<>>}
    ELSE LET shorter == BrandSeqsUpTo(k - 1)
         IN shorter \cup {Append(l, b) : l \in {s \in shorter : Len(s) = k - 1},
                                         b \in DiscoveredNames}

\* the JSON document null, Python's None
JNull == [kind |-> "null"]

\* json.loads(text): the parsed document, or the exception
JsonLoads(reply) ==
    IF reply.text = "json" THEN reply.doc ELSE Raised("JSONDecodeError")

\* a faulty variant: a failure leaves None where the default belongs
LoadsOrNone(reply, default) ==
    IF IsRaised(reply) THEN JNull
    ELSE IF IsRaised(JsonLoads(reply)) THEN JNull
    ELSE JsonLoads(reply)

\* try: value = json.loads(...) / except Exception: value = default; reply
\* is the text, or the exception of agent.invoke and description.format
LoadsOr(reply, default) ==
    IF IsRaised(reply) THEN default
    ELSE IF IsRaised(JsonLoads(reply)) THEN default
    ELSE JsonLoads(reply)

\* output.get(key, <the text of default>)
OutputGet(output, key, default) ==
    IF key \in DOMAIN output THEN output[key]
    ELSE [text |-> "json", doc |-> default]

\* self.inputs.get(key, default)
InputGet(key, default) ==
    IF key \in DOMAIN crewInputs THEN crewInputs[key] ELSE default

\* the mode strings, as sequences of characters
ModeCategory == <<"c", "a", "t", "e", "g", "o", "r", "y">>

ModeBrand == <<"b", "r", "a", "n", "d">>

\* mode = self.inputs.get("mode", "category").lower()
Mode == Lower(InputGet("mode", ModeCategory))

\* for brand in discovered_brands: the elements of a list, the keys of a
\* dict; None is not iterable
Iterable(parsed) == parsed.kind \in {"array", "object"}

BrandsOf(parsed) ==
    IF parsed.kind = "array" THEN parsed.elems
    ELSE [i \in DOMAIN parsed.pairs |-> parsed.pairs[i].key]

\* upsert_brand_info raises when the store fails, and on attributes.items()
\* when attributes is not a dict
UpsertRaises(attrs, store_ok) == attrs.kind # "object" \/ ~store_ok

\* updater.upsert_brand_info(brand, category, product_type, attrs,
\* variations), with its outcome
UpsertCall(brand, attrs, variations, raises) ==
    [brand |-> brand,
     category |-> InputGet("category", ""),
     product_type |-> InputGet("product_type", ""),
     attributes |-> attrs,
     variations |-> variations,
     raised |-> raises]

CrewInputs ==
    {[mode |-> ModeCategory, category |-> "TestCategory",
      product_type |-> "TestProduct"],
     [mode |-> <<"C", "A", "T", "E", "G", "O", "R", "Y">>,
      category |-> "TestCategory"],
     [category |-> "TestCategory", product_type |-> "TestProduct"],
     [mode |-> ModeBrand, brand |-> "TestBrand", category |-> "TestCategory",
      product_type |-> "TestProduct"],
     [mode |-> <<"B", "r", "a", "n", "d">>, brand |-> "TestBrand"],
     [mode |-> <<"b", "o", "t", "h">>, category |-> "TestCategory"]}

ColorSize ==
    JObject(<<[key |-> "Color", value |-> <<"Red", "Blue">>],
              [key |-> "Size", value |-> <<"8", "9">>]>>)

\* the text of the brand discovery task's output
DiscoveryTexts ==
    {[text |-> "json", doc |-> JArray(l)] : l \in BrandSeqsUpTo(MaxBrands)}
    \cup {[text |-> "fenced", doc |-> JArray(<<"BrandA">>)],
          [text |-> "prose"],
          [text |-> "json", doc |-> JNull],
          [text |-> "json",
           doc |-> JObject(<<[key |-> "brands", value |-> <<"BrandA">>]>>)]}

AttrTexts == {[text |-> "json", doc |-> ColorSize], [text |-> "prose"]}

VarTexts ==
    {[text |-> "json", doc |-> JArray(<<"TestBrandX", "T3stBrand">>)],
     [text |-> "prose"]}

\* the output handed to update_graph: the text of each task that ran
CrewOutputs ==
    {[brand_discovery_task |-> d] : d \in DiscoveryTexts}
    \cup {[attribute_extraction_task |-> a, variation_generation_task |-> v] :
             a \in AttrTexts, v \in VarTexts}
    \cup {[attribute_extraction_task |-> a] : a \in AttrTexts}

\* attr_task.agent.invoke(...) in the loop: a reply, or an exception (of
\* the call, or of description.format on the braces of the task text)
AttrReplies ==
    {[text |-> "json", doc |-> ColorSize],
     [text |-> "json", doc |-> JArray(<<>>)],
     [text |-> "prose"],
     Raised("KeyError")}

\* var_task.agent.invoke(...) in the loop
VarReplies ==
    {[text |-> "json", doc |-> JArray(<<"BrandA_Var1">>)],
     [text |-> "prose"],
     Raised("AttributeError")}

CrewInit ==
    /\ crewInputs \in CrewInputs
    /\ crewOutput \in CrewOutputs
    /\ discovered = <<>>
    /\ agentReplies = <<>>
    /\ upsertCalls = <<>>
    /\ crewPc = "call"
    /\ GraphIdle
    /\ SimIdle
    /\ ScoreIdle
    /\ AnalysisIdle
    /\ BatchIdle
    /\ ItemsIdle
    /\ FuzzyIdle
    /\ DetectIdle

CrewFrame == UNCHANGED <<batchVars, itemsVars, fuzzyVars, detectVars,
                         simVars, graphVars, scoreVars, analysisVars,
                         crewInputs, crewOutput>>

\* category mode, up to the for loop: discovered_brands is parsed, [] when
\* that fails; a value that is not iterable raises TypeError at the for
CategoryMode ==
    /\ crewPc = "call"
    /\ Mode = ModeCategory
    /\ LET discovered_brands ==
               LoadsOr(OutputGet(crewOutput, "brand_discovery_task",
                                 JArray(<<>>)),
                       JArray(<<>>))
       IN IF Iterable(discovered_brands)
          THEN /\ discovered' = BrandsOf(discovered_brands)
               /\ crewPc' = "loop"
          ELSE /\ discovered' = discovered
               /\ crewPc' = "raised"
    /\ UNCHANGED <<agentReplies, upsertCalls>>
    /\ CrewFrame

\* one turn of the loop: both agents are asked, each failure gives its
\* default, and the brand is upserted; an exception of upsert_brand_info
\* leaves update_graph
LoopBrand ==
    /\ crewPc = "loop"
    /\ Len(agentReplies) < Len(discovered)
    /\ \E attr_response \in AttrReplies, var_response \in VarReplies,
          store_ok \in BOOLEAN :
          LET brand == discovered[Len(agentReplies) + 1]
              attrs == LoadsOr(attr_response, JObject(<<>>))
              variations == LoadsOr(var_response, JArray(<<>>))
              raises == UpsertRaises(attrs, store_ok)
          IN /\ agentReplies' = Append(agentReplies,
                    [attr |-> attr_response, var |-> var_response])
             /\ upsertCalls' = Append(upsertCalls,
                    UpsertCall(brand, attrs, variations, raises))
             /\ crewPc' = IF raises THEN "raised" ELSE "loop"
    /\ UNCHANGED discovered
    /\ CrewFrame

\* the loop is over: print, return output
LoopExit ==
    /\ crewPc = "loop"
    /\ Len(agentReplies) = Len(discovered)
    /\ crewPc' = "returned"
    /\ UNCHANGED <<discovered, agentReplies, upsertCalls>>
    /\ CrewFrame

\* brand mode: attributes and variations are parsed from the output, {} and
\* [] when that fails, and the configured brand is upserted
BrandMode ==
    /\ crewPc = "call"
    /\ Mode = ModeBrand
    /\ \E store_ok \in BOOLEAN :
          LET brand == InputGet("brand", "")
              attrs == LoadsOr(OutputGet(crewOutput,
                                         "attribute_extraction_task",
                                         JObject(<<>>)),
                               JObject(<<>>))
              variations == LoadsOr(OutputGet(crewOutput,
                                              "variation_generation_task",
                                              JArray(<<>>)),
                                    JArray(<<>>))
              raises == UpsertRaises(attrs, store_ok)
          IN /\ upsertCalls' = Append(upsertCalls,
                    UpsertCall(brand, attrs, variations, raises))
             /\ crewPc' = IF raises THEN "raised" ELSE "returned"
    /\ UNCHANGED <<discovered, agentReplies>>
    /\ CrewFrame

\* any other mode: neither branch is taken
OtherMode ==
    /\ crewPc = "call"
    /\ Mode \notin {ModeCategory, ModeBrand}
    /\ crewPc' = "returned"
    /\ UNCHANGED <<discovered, agentReplies, upsertCalls>>
    /\ CrewFrame

CrewNext == CategoryMode \/ LoopBrand \/ LoopExit \/ BrandMode \/ OtherMode

SpecCrew == CrewInit /\ [][CrewNext]_vars

\* a reply that gives no parsed value: the call raised, or the text is no
\* JSON
NoValue(reply) == IsRaised(reply) \/ reply.text # "json"

\* the text of the discovery task in the output, None when the key is
\* absent
DiscoveryText ==
    IF "brand_discovery_task" \in DOMAIN crewOutput
    THEN crewOutput.brand_discovery_task
    ELSE NONE

-----------------------------------------------------------------------------
(* _query_fuzzy_brand on its own: the whole list it returns, for a graph    *)
(* of several brands close to the name asked.                               *)

MaxFuzzyBrands == 4

Nikee == <<"N","i","k","e","e">>
Niket == <<"N","i","k","e","t">>

\* the brands of the graph: five within one edit of "Nike", two that are not
FuzzyBrandNames == {Nike, NikeLower, Nikey, Nikee, Niket, Nikon, Balenciaga}

\* the names asked
FuzzyQueries == {Nike, Nikey, Valensiago}

\* the sequences of distinct brands of length up to k
RECURSIVE DistinctBrandSeqs(_)
DistinctBrandSeqs(k) ==
    IF k = 0 THEN {<<>>}
    ELSE LET shorter == DistinctBrandSeqs(k - 1)
         IN shorter \cup
            {Append(l, b) : l \in {q \in shorter : Len(q) = k - 1},
                            b \in FuzzyBrandNames}

\* the graph after upsert_brand_info ran for each brand of bs in turn
RECURSIVE StoreOf(_)
StoreOf(bs) ==
    IF bs = <<>> THEN EmptyStore
    ELSE UpsertBrandInfo(StoreOf(SubSeq(bs, 1, Len(bs) - 1)), bs[Len(bs)],
                         "Fashion", "Apparel", <<>>, <<>>)

FuzzyInit ==
    /\ \E bs \in DistinctBrandSeqs(MaxFuzzyBrands) :
          /\ Cardinality({bs[i] : i \in DOMAIN bs}) = Len(bs)
          /\ store = StoreOf(bs)
    /\ brandName \in FuzzyQueries
    /\ upserts = 0
    /\ context = NONE
    /\ fuzzyMatches = <<>>
    /\ fuzzyPc = "call"
    /\ SimIdle
    /\ ScoreIdle
    /\ AnalysisIdle
    /\ BatchIdle
    /\ ItemsIdle
    /\ CrewIdle
    /\ DetectIdle

\* one call of _query_fuzzy_brand(session, brand_name)
QueryFuzzy ==
    /\ fuzzyPc = "call"
    /\ fuzzyMatches' = QueryFuzzyBrand(store, brandName)
    /\ fuzzyPc' = "returned"
    /\ UNCHANGED <<graphVars, simVars, scoreVars, analysisVars, batchVars,
                   itemsVars, crewVars, detectVars>>

FuzzyNext == QueryFuzzy

SpecFuzzy == FuzzyInit /\ [][FuzzyNext]_vars

\* where a brand stands in the rows MATCH (b:Brand) returns
StorePosition(b) == CHOOSE i \in DOMAIN store.brands : store.brands[i] = b

\* C21: _query_fuzzy_brand returns at most 3 contexts (all the candidates
\* when fewer pass), each the context of a stored brand annotated with its
\* similarity_score, each scoring at or above the threshold, ordered by
\* non-increasing score with equal scores in the order the store returned
\* the names; no brand left out scores strictly higher than one returned.
C21_FuzzyCandidates ==
    fuzzyPc = "returned" =>
        LET returned == {fuzzyMatches[i].brand : i \in DOMAIN fuzzyMatches}
        IN /\ Len(fuzzyMatches) <= 3
           /\ Len(fuzzyMatches) =
                 (IF Cardinality(BrandsAbove(store, brandName)) < 3
                  THEN Cardinality(BrandsAbove(store, brandName)) ELSE 3)
           /\ Cardinality(returned) = Len(fuzzyMatches)
           /\ \A i \in DOMAIN fuzzyMatches :
                 /\ IsBrand(store, fuzzyMatches[i].brand)
                 /\ "similarity_score" \in DOMAIN fuzzyMatches[i]
                 /\ fuzzyMatches[i].similarity_score =
                       ScoreAgainst(brandName, fuzzyMatches[i].brand)
                 /\ RGeq(fuzzyMatches[i].similarity_score, Rat(7, 10))
           /\ \A i, j \in DOMAIN fuzzyMatches :
                 i < j =>
                    /\ RGeq(fuzzyMatches[i].similarity_score,
                            fuzzyMatches[j].similarity_score)
                    /\ fuzzyMatches[i].similarity_score =
                          fuzzyMatches[j].similarity_score =>
                             StorePosition(fuzzyMatches[i].brand) <
                                StorePosition(fuzzyMatches[j].brand)
           /\ \A b \in Range(store.brands) \ returned :
                 \A c \in returned :
                    ~RGt(ScoreAgainst(brandName, b), ScoreAgainst(brandName, c))

\* four brands pass for "Nike": "nike" with 1.0 comes first although stored
\* third, the tie at 0.8 keeps store order and its last brand is left out
C21_Witness ==
    /\ fuzzyPc = "returned"
    /\ brandName = Nike
    /\ store.brands = <<Nikey, Niket, NikeLower, Nikee>>
    /\ Len(fuzzyMatches) = 3
    /\ fuzzyMatches[1].brand = NikeLower
    /\ fuzzyMatches[1].similarity_score = ROne
    /\ fuzzyMatches[2].brand = Nikey
    /\ fuzzyMatches[3].brand = Niket
    /\ fuzzyMatches[3].similarity_score = Rat(4, 5)

-----------------------------------------------------------------------------
(* _batch_brand_detection on its own.  A listing is given by the lengths of *)
(* its title and description; a text batch by the length of its text and    *)
(* its indices (text_batches zipped with batch_indices); an entry of a      *)
(* reply by the request it answers and its position in that reply.          *)

MaxDetect == 3

\* if len(current_batch) + len(text) < 15000
TextLimit == 15000

\* listings whose texts have 63, 53, 7499, 7500 and 15000 characters
DetectListings ==
    {[title |-> 40, description |-> 10],
     [title |-> 40],
     [title |-> 40, description |-> 7446],
     [title |-> 40, description |-> 7447],
     [title |-> 40, description |-> 14947]}

RECURSIVE DetectSeqsUpTo(_)
DetectSeqsUpTo(k) ==
    IF k = 0 THEN {<<>>}
    ELSE LET shorter == DetectSeqsUpTo(k - 1)
         IN shorter \cup {Append(l, d) : l \in {s \in shorter : Len(s) = k - 1},
                                         d \in DetectListings}

\* len(str(i))
Digits(i) == IF i < 10 THEN 1 ELSE IF i < 100 THEN 2 ELSE 3

\* len(f"Listing {i}: {listing.get('title', '')}
\*        {listing.get('description', '')}\n")
TextLen(i, listing) ==
    8 + Digits(i) + 2 + Get(listing, "title", 0) + 1
      + Get(listing, "description", 0) + 1

\* the loop over enumerate(listings) from index i on; current is
\* current_batch with current_indices
RECURSIVE BatchLoop(_, _, _, _)
BatchLoop(ls, i, batches, current) ==
    IF i >= Len(ls) THEN [batches |-> batches, current |-> current]
    ELSE LET text == TextLen(i, ls[i + 1])
         IN IF current.length + text < TextLimit
            THEN BatchLoop(ls, i + 1, batches,
                           [length |-> current.length + text,
                            indices |-> Append(current.indices, i)])
            ELSE BatchLoop(ls, i + 1, Append(batches, current),
                           [length |-> text, indices |-> <<i>>])

\* text_batches and batch_indices; the last batch is added if current_batch
\* is not the empty string
TextBatches(ls) ==
    LET looped == BatchLoop(ls, 0, <<>>, [length |-> 0, indices |-> <<>>])
    IN IF looped.current.length > 0
       THEN Append(looped.batches, looped.current)
       ELSE looped.batches

\* the reply to request r with n entries
BatchBrands(r, n) == [j \in 1..n |-> [request |-> r, entry |-> j]]

\* for list_idx, result_idx in enumerate(indices):
\*     if list_idx < len(batch_brands):
\*         brand_results[result_idx] = batch_brands[list_idx]
AssignResults(brand_results, indices, batch_brands) ==
    [k \in DOMAIN brand_results |->
        IF \E j \in DOMAIN indices : indices[j] = k - 1 /\ j <= Len(batch_brands)
        THEN batch_brands[CHOOSE j \in DOMAIN indices : indices[j] = k - 1]
        ELSE brand_results[k]]

DetectInit ==
    /\ texts \in DetectSeqsUpTo(MaxDetect)
    /\ textBatches = <<>>
    /\ requests = <<>>
    /\ brandResults = <<>>
    /\ detectPc = "build"
    /\ SimIdle
    /\ GraphIdle
    /\ ScoreIdle
    /\ AnalysisIdle
    /\ BatchIdle
    /\ ItemsIdle
    /\ CrewIdle
    /\ FuzzyIdle

DetectFrame == UNCHANGED <<graphVars, simVars, scoreVars, analysisVars,
                           batchVars, itemsVars, crewVars, fuzzyVars>>

\* lines 93-115: the listings are put into text batches;
\* brand_results = [None] * len(listings)
BuildBatches ==
    /\ detectPc = "build"
    /\ textBatches' = TextBatches(texts)
    /\ brandResults' = [k \in DOMAIN texts |-> NONE]
    /\ detectPc' = "send"
    /\ UNCHANGED <<texts, requests>>
    /\ DetectFrame

\* one turn of the loop over zip(text_batches, batch_indices): the batch is
\* sent to extract_brands, which raises or answers with some entries
SendBatch ==
    /\ detectPc = "send"
    /\ Len(requests) < Len(textBatches)
    /\ LET batch == textBatches[Len(requests) + 1]
       IN /\ requests' = Append(requests, batch)
          /\ \/ /\ detectPc' = "raised"
                /\ UNCHANGED brandResults
             \/ \E n \in 0..(Len(batch.indices) + 1) :
                   /\ brandResults' =
                         AssignResults(brandResults, batch.indices,
                                       BatchBrands(Len(requests) + 1, n))
                   /\ UNCHANGED detectPc
    /\ UNCHANGED <<texts, textBatches>>
    /\ DetectFrame

\* return brand_results
DetectReturn ==
    /\ detectPc = "send"
    /\ Len(requests) = Len(textBatches)
    /\ detectPc' = "returned"
    /\ UNCHANGED <<texts, textBatches, requests, brandResults>>
    /\ DetectFrame

DetectNext == BuildBatches \/ SendBatch \/ DetectReturn

SpecDetect == DetectInit /\ [][DetectNext]_vars

\* batch_indices, one after the other
RECURSIVE AllIndices(_)
AllIndices(batches) ==
    IF batches = <<>> THEN <<>>
    ELSE AllIndices(SubSeq(batches, 1, Len(batches) - 1))
         \o batches[Len(batches)].indices

\* the first three parts of C29: every index stands in exactly one batch,
\* in input order, and the j-th entry of the reply to a batch went to the
\* j-th listing of that batch
IndicesPlaced ==
    detectPc \in {"send", "returned", "raised"} =>
        /\ AllIndices(textBatches) = [k \in DOMAIN texts |-> k - 1]
        /\ \A r \in DOMAIN requests :
              \A j \in DOMAIN requests[r].indices :
                 LET got == brandResults[requests[r].indices[j] + 1]
                 IN got # NONE => got = [request |-> r, entry |-> j]

\* C29 as the specification states it: every listing index is placed in
\* exactly one text batch, indices keep input order inside and across the
\* batches, the j-th entry of a reply is assigned to the j-th listing of
\* its batch, and every batch sent to the inference service holds at least
\* one listing, also when one listing's text alone reaches 15000 characters.
C29_AsStated ==
    /\ IndicesPlaced
    /\ \A r \in DOMAIN requests : requests[r].indices # <<>>

-----------------------------------------------------------------------------
(* The similarity on its own: every pair of strings over a small alphabet.  *)

MaxStrLen == 3

SimAlphabet == {"a", "b"}

RECURSIVE StringsUpTo(_)
StringsUpTo(k) ==
    IF k = 0 THEN {<<>>}
    ELSE LET shorter == StringsUpTo(k - 1)
         IN shorter \cup {Append(s, c) : s \in shorter, c \in SimAlphabet}

SimStrings == StringsUpTo(MaxStrLen)

SimInit ==
    /\ str1 \in SimStrings
    /\ str2 \in SimStrings
    /\ simResult = RZero
    /\ simPc = "call"
    /\ GraphIdle
    /\ ScoreIdle
    /\ AnalysisIdle
    /\ PipelineIdle

SimCall ==
    /\ simPc = "call"
    /\ simResult' = CalculateSimilarity(str1, str2)
    /\ simPc' = "returned"
    /\ UNCHANGED <<str1, str2>>
    /\ UNCHANGED <<pipelineVars, graphVars, scoreVars, analysisVars>>

SimNext == SimCall

SpecSim == SimInit /\ [][SimNext]_vars

\* The reference: the edit distance by its textbook recurrence
\* (unit-cost insert, delete, substitute), on prefixes.
RECURSIVE EditDistance(_, _)
EditDistance(a, b) ==
    IF Len(a) = 0 THEN Len(b)
    ELSE IF Len(b) = 0 THEN Len(a)
    ELSE LET a1 == SubSeq(a, 1, Len(a) - 1)
             b1 == SubSeq(b, 1, Len(b) - 1)
             cost == IF a[Len(a)] = b[Len(b)] THEN 0 ELSE 1
         IN Min3(EditDistance(a1, b) + 1,
                 EditDistance(a, b1) + 1,
                 EditDistance(a1, b1) + cost)

\* C5: similarity(a, b) = 1 - edit_distance(a, b) / max(len a, len b); it
\* lies in [0, 1], is symmetric, is 1 for a = b non-empty and 0 whenever one
\* argument is empty.
C5_Similarity ==
    simPc = "returned" =>
        /\ RLeq(RZero, simResult) /\ RLeq(simResult, ROne)
        /\ simResult = CalculateSimilarity(str2, str1)
        /\ (str1 = str2 /\ str1 # <<>>) => simResult = ROne
        /\ (str1 = <<>> \/ str2 = <<>>) => simResult = RZero
        /\ (str1 # <<>> /\ str2 # <<>>) =>
              LET m == Max2(Len(str1), Len(str2))
              IN simResult = Rat(m - EditDistance(str1, str2), m)

\* two different non-empty strings of different lengths sharing a letter
C5_Witness ==
    /\ simPc = "returned"
    /\ str1 = <<"a", "b">>
    /\ str2 = <<"b", "a", "b">>
    /\ simResult = Rat(2, 3)

=============================================================================
